---- MODULE Spec2Model ----
(***************************************************************************)
(* A model of the block execution engine of casper-node:                   *)
(* node/src/components/contract_runtime/operations.rs.                     *)
(*                                                                         *)
(* execute_finalized_block is modelled statement block by statement block: *)
(* pc names the place in the function, one action per block of the code.   *)
(* The collaborators (the scratch global state, the execution engine, the  *)
(* artifact builder, the chainspec) answer nondeterministically within     *)
(* the result types the code matches on.                                   *)
(*                                                                         *)
(* A Digest is modelled by the snapshot of global state it identifies (a   *)
(* collision-free hash): state_root_hash holds a snapshot record.          *)
(*                                                                         *)
(* An input is drawn where the code first depends on its value, and a      *)
(* local that is read no more is set back to its default.                  *)
(***************************************************************************)
EXTENDS Integers, Sequences, FiniteSets, TLC

\* ------------------------------------------------------------------ bounds
\* Most transactions in one block.
MaxTxns == 2
\* Gas limits range over 1..MaxGasLimit.
MaxGasLimit == 1
\* current_gas_price ranges over 1..MaxGasPrice (the price floor is 1).
MaxGasPrice == 2
\* Balances reported by the balance reads range over 0..MaxBalance.
MaxBalance == 2
\* Block heights range over 0..MaxHeight.
MaxHeight == 2
\* The gas a custom payment consumes ranges over 0..MaxPaymentGas.
MaxPaymentGas == 1
\* Refund ratios are the proper fractions n/RatioDenominator.
RatioDenominator == 2
\* Validator identities are 1..MaxValidators, era ids 0..MaxEra.
MaxValidators == 3
MaxEra == 1
\* Block hashes are 1..MaxHash, the lists of a sync leap no longer than
\* MaxLeapLen.
MaxHash == 3
MaxLeapLen == 2
\* A peer list knows the nodes 1..MaxPeers, asks for up to
\* MaxSimultaneousPeers of them and reads a clock that goes up to MaxTime.
MaxPeers == 3
MaxSimultaneousPeers == 2
MaxTime == 1

\* ------------------------------------------------------- program constants
\* casper_execution_engine::engine_state::MAX_PAYMENT, in the model's unit of
\* motes (the penalty payment floor; the real figure is 2_500_000_000).
penalty_payment_amount == 1

\* --------------------------------------------------------------- variables
VARIABLES
    pc,                \* the place in execute_finalized_block
    result,            \* "none" while running, "Ok", the BlockExecutionError or a panic
    block,             \* the inputs read so far (executable_block, pre-state, chainspec)
    scratch_created,   \* get_scratch_global_state has run
    state_touched,     \* some state operation was issued to a state provider
    scratch,           \* the content of the working (scratch) copy of global state
    state_root_hash,   \* the root the orchestrating loop holds
    db_written,        \* write_scratch_to_db has run
    flushed,           \* flush has run successfully
    idx,               \* number of transactions taken from the block so far
    artifacts,         \* the artifact list
    tx,                \* the locals of the transaction being processed
    step_outcome       \* "unset", "None" or what the era validators read gave

vars == <<pc, result, block, scratch_created, state_touched, scratch,
          state_root_hash, db_written, flushed, idx, artifacts, tx, step_outcome>>

\* ------------------------------------------------------------ global state
\* The content of a snapshot of global state, as far as the engine's own
\* writes go. touched: the transactions whose transfer, auction, VM, refund
\* or fee effects are in the state.
\* refund_purse: the transaction that set the refund purse, 0 when unset.
\* checksum_registry: empty, or the artifact list the stored checksums cover.
EmptyState ==
    [block_time |-> FALSE, refund_purse |-> 0, penalty_paid |-> {},
     processing_hold |-> FALSE, gas_holds |-> {}, touched |-> {},
     checksum_registry |-> {}, fees |-> FALSE, rewards |-> FALSE,
     undelegated |-> FALSE, step |-> FALSE, pruned |-> FALSE]

\* The effects a successful sub-operation reports; applied by commit_effects.
Effects == {"none", "set_refund_purse", "clear_refund_purse", "processing_hold",
            "clear_holds", "gas_hold", "data", "penalty_transfer"}

\* ScratchGlobalState::commit_effects: the snapshot after the effects of
\* transaction t are applied to snapshot s.
ApplyEffects(s, eff, t) ==
    CASE eff = "none"               -> s
      [] eff = "set_refund_purse"   -> [s EXCEPT !.refund_purse = t]
      [] eff = "clear_refund_purse" -> [s EXCEPT !.refund_purse = 0]
      [] eff = "processing_hold"    -> [s EXCEPT !.processing_hold = TRUE]
      [] eff = "clear_holds"        -> [s EXCEPT !.processing_hold = FALSE]
      [] eff = "gas_hold"           -> [s EXCEPT !.gas_holds = @ \cup {t}]
      [] eff = "data"               -> [s EXCEPT !.touched = @ \cup {t}]
      [] eff = "penalty_transfer"   -> [s EXCEPT !.penalty_paid = @ \cup {t}]

\* --------------------------------------------------------- artifact builder
\* ExecutionArtifactBuilder::new
NewBuilder == [error |-> "none", consumed |-> 0]

\* The builder's with_*_result methods keep the first error they are given.
\* The errors are kept by class: "invalid" (gas limit, cost),
\* "insufficient_balance", "payer" (refund purse set-up, payer lookup, custom
\* payment, penalty transfer), "execution" (transfer, auction, VM),
\* "settlement" (holds, refund, fee, refund purse clearing).
WithError(b, e) == IF b.error = "none" THEN [b EXCEPT !.error = e] ELSE b

\* ExecutionArtifactBuilder::with_added_consumed
WithAddedConsumed(b, g) == [b EXCEPT !.consumed = @ + g]

\* ExecutionArtifactBuilder::build, kept as the transaction hash and whether
\* the artifact carries an error.
Build(t) == [transaction_hash |-> t.hash, failed |-> t.builder.error # "none"]

\* ----------------------------------------------------------- inputs, locals
\* What is on record of the arguments of the call:
\* height_matches: executable_block.height = next_block_height.
\* gas_price_missing: era_report is Some and next_era_gas_price is None.
\* addressable_entity_enabled: the chainspec's setting (line 82).
\* era_id, inactive_validators, equivocators: the block's era and era report.
\* step_request: the request commit_step has made.
\* upcoming_era_validators: the validators of era_id's successor in the
\* snapshot, once the step has run.
\* era_end: the era end of the assembled block, "None" or "Some".
NoStepRequest == [slash_items |-> <<>>, evict_items |-> {}, next_era_id |-> 0]

NoBlock ==
    [height_matches |-> TRUE, gas_price_missing |-> FALSE, current_gas_price |-> 1,
     refund_handling |-> "NoRefund", refund_ratio |-> 0, fee_handling |-> "NoFee",
     era_report |-> FALSE, rewards |-> FALSE, addressable_entity_enabled |-> FALSE,
     era_id |-> 0, inactive_validators |-> {}, equivocators |-> {},
     step_request |-> NoStepRequest, upcoming_era_validators |-> {},
     era_validators_observed |-> [undelegated |-> FALSE, step |-> FALSE],
     prune_considered |-> 0, prune_eras |-> FALSE, prune_requests |-> 0,
     prune_result |-> "none", db_writes |-> 0, flushes |-> 0,
     era_end |-> "unset"]

\* No HandleFeeMode yet.
NoHandleFeeMode == [kind |-> "none", source |-> "none", target |-> "none", amount |-> 0]

NoTx ==
    [hash |-> 0, stage |-> "none", gas_limit |-> 0, cost |-> 0,
     is_standard_payment |-> TRUE, balance_identifier |-> "none",
     is_contract_by_hash_invocation |-> FALSE, entry_point |-> "none",
     post_payment_balance_result |-> "none",
     sufficient_balance |-> FALSE, is_supported |-> FALSE,
     allow_execution |-> FALSE, dispatched |-> FALSE,
     hold_amount |-> 0, hold_result |-> "none", clear_hold_result |-> "none",
     payment_consumed |-> 0, lane |-> "none", auction_method |-> "none",
     lane_result |-> "none", refund_mode |-> "none",
     gas_hold_purse |-> "none", gas_hold_amount |-> 0,
     handle_fee_mode |-> NoHandleFeeMode,
     refund_amount |-> 0, fee_amount |-> 0, penalty |-> 0,
     builder |-> NewBuilder, start_root |-> EmptyState]

RefundHandlings == {"NoRefund", "Burn", "Refund"}
FeeHandlings == {"NoFee", "Burn", "PayToProposer", "Accumulate"}
\* refund_ratio is a share of RatioDenominator; NoRefund carries none.
RefundConfigs ==
    {<<"NoRefund", 0>>} \cup ({"Burn", "Refund"} \X (1..(RatioDenominator - 1)))

Heights == 0..MaxHeight
GasPrices == 1..MaxGasPrice
GasLimits == 1..MaxGasLimit
Balances == 0..MaxBalance

\* The three answers of a state operation the code matches on.
Results == {"Success", "Failure", "RootNotFound"}
\* commit_effects(..)?: the commit itself can fail.
CommitResults == {"Ok", "Err"}

Init ==
    /\ pc = "check_height"
    /\ result = "none"
    /\ block = NoBlock
    /\ scratch_created = FALSE
    /\ state_touched = FALSE
    /\ scratch = EmptyState
    /\ state_root_hash = EmptyState
    /\ db_written = FALSE
    /\ flushed = FALSE
    /\ idx = 0
    /\ artifacts = <<>>
    /\ tx = NoTx
    /\ step_outcome = "unset"

\* return Err(err): the function's locals are dropped, the error is all the
\* caller gets; what was done to the state providers stays done.
Return(err) ==
    /\ pc' = "done"
    /\ result' = err
    /\ idx' = 0
    /\ artifacts' = <<>>
    /\ tx' = NoTx
    /\ step_outcome' = "unset"
    /\ state_root_hash' = EmptyState

Abort(err) ==
    /\ Return(err)
    /\ block' = NoBlock

\* ------------------------------------------------------------ pre-processing
\* A height guard that lets a block below the expected height by.
WrongBlockHeightOnlyAbove(block_height, next_block_height) ==
    block_height > next_block_height

\* line 66: block_height != execution_pre_state.next_block_height()
WrongBlockHeight(block_height, next_block_height) ==
    block_height # next_block_height

\* lines 53-71: the call, with its arguments, and the height guard.
CheckHeight ==
    /\ pc = "check_height"
    /\ \E h \in Heights, n \in Heights, er \in BOOLEAN, gp \in BOOLEAN :
         /\ block' = [block EXCEPT !.height_matches = (h = n),
                                   !.gas_price_missing = (er /\ ~gp)]
         /\ IF WrongBlockHeight(h, n)
            THEN Return("WrongBlockHeight")
            ELSE /\ pc' = "check_gas_price"
                 /\ UNCHANGED <<result, idx, artifacts, tx, step_outcome, state_root_hash>>
    /\ UNCHANGED <<scratch_created, state_touched, scratch, db_written, flushed>>

\* A gas price guard that lets every block by.
MissingNewEraGasPriceNever(era_report, next_era_gas_price) == FALSE

\* line 72: era_report.is_some() && next_era_gas_price.is_none()
MissingNewEraGasPrice(era_report, next_era_gas_price) ==
    era_report /\ ~next_era_gas_price

\* lines 72-76: a switch block needs the next era's gas price.
CheckNextEraGasPrice ==
    /\ pc = "check_gas_price"
    /\ \E er \in BOOLEAN, gp \in BOOLEAN :
         /\ block.gas_price_missing = (er /\ ~gp)
         /\ IF MissingNewEraGasPrice(er, gp)
            THEN Return("FailedToGetNewEraGasPrice")
            ELSE /\ pc' = "pre_processing"
                 /\ UNCHANGED <<result, idx, artifacts, tx, step_outcome, state_root_hash>>
    /\ UNCHANGED <<block, scratch_created, state_touched, scratch, db_written, flushed>>

\* lines 77-113: read the chainspec and the pre-state, check the addressable
\* entity setting, get the scratch state.
PreProcessing ==
    /\ pc = "pre_processing"
    /\ \E addressable_entity_enabled \in BOOLEAN, ae_ok \in BOOLEAN, gp \in GasPrices,
          rh \in RefundConfigs, fh \in FeeHandlings :
         IF ~ae_ok
         THEN /\ Return("InvalidAESetting")
              /\ UNCHANGED <<block, scratch_created>>
         ELSE /\ block' = [block EXCEPT !.current_gas_price = gp,
                                        !.refund_handling = rh[1],
                                        !.refund_ratio = rh[2], !.fee_handling = fh,
                                        !.addressable_entity_enabled =
                                            addressable_entity_enabled]
              /\ scratch_created' = TRUE
              /\ pc' = "block_time"
              /\ UNCHANGED <<result, idx, artifacts, tx, step_outcome, state_root_hash>>
    /\ UNCHANGED <<state_touched, scratch, db_written, flushed>>

\* lines 135-151: put block_time to global state (block_global commits itself).
WriteBlockTime ==
    /\ pc = "block_time"
    /\ state_touched' = TRUE
    /\ \E r \in Results :
         CASE r = "RootNotFound" ->
                /\ Abort("RootNotFound")
                /\ UNCHANGED scratch
           [] r = "Failure" ->
                /\ Abort("BlockGlobal")
                /\ UNCHANGED scratch
           [] r = "Success" ->
                /\ scratch' = [scratch EXCEPT !.block_time = TRUE]
                /\ state_root_hash' = scratch'
                /\ pc' = "next_transaction"
                /\ UNCHANGED <<result, idx, artifacts, tx, step_outcome, block>>
    /\ UNCHANGED <<scratch_created, db_written, flushed>>

\* --------------------------------------------------------- transaction loop
\* artifacts.push(artifact_builder.build()); continue. The locals stay readable
\* until the loop head takes the next transaction.
PushAndContinue(t) ==
    /\ artifacts' = Append(artifacts, Build(t))
    /\ tx' = t
    /\ pc' = "next_transaction"
    /\ UNCHANGED <<result, idx, step_outcome, block>>

\* The transaction goes on to the next block of the loop body.
GoOn(t, next) ==
    /\ tx' = t
    /\ pc' = next
    /\ UNCHANGED <<result, idx, artifacts, step_outcome, block>>

\* commit_effects(state_root_hash, effects): the effects go into the working
\* copy and its root comes back.
Commit(eff) ==
    /\ scratch' = ApplyEffects(scratch, eff, tx.hash)
    /\ state_root_hash' = scratch'

\* result.effects(): only a successful operation reports effects.
EffectsOf(r, eff) == IF r = "Success" THEN eff ELSE "none"

\* What the builder's with_*_result methods do with a result that is not
\* RootNotFound: a failure is recorded as the artifact's error.
WithResult(b, r, e) == IF r = "Failure" THEN WithError(b, e) ELSE b

Providers == <<scratch_created, state_touched, db_written, flushed>>

\* lines 155-163: the loop head takes the next transaction, if any, and
\* converts it. A failed conversion ends the block.
NextTransaction ==
    /\ pc = "next_transaction"
    /\ \E more \in BOOLEAN, conv \in {"Ok", "Err"} :
         IF ~more \/ idx = MaxTxns
         THEN /\ pc' = "checksums"
              /\ tx' = NoTx
              /\ block' = NoBlock
              /\ UNCHANGED <<result, idx, artifacts, step_outcome, state_root_hash>>
         ELSE IF conv = "Err"
         THEN Abort("TransactionConversion")
         ELSE /\ idx' = idx + 1
              /\ tx' = [NoTx EXCEPT !.hash = idx + 1, !.start_root = state_root_hash,
                                    !.stage = "started"]
              /\ pc' = "gas_limit"
              /\ UNCHANGED <<result, artifacts, step_outcome, state_root_hash, block>>
    /\ UNCHANGED <<scratch, Providers>>

\* An invalid transaction whose artifact is pushed after a commit of effects.
InvalidTransactionCommitting(t) ==
    /\ PushAndContinue([t EXCEPT !.builder = WithError(@, "invalid"), !.stage = "invalid"])
    /\ Commit("data")

\* An invalid transaction that is passed over without an artifact.
InvalidTransactionDropped(t) ==
    /\ tx' = [t EXCEPT !.builder = WithError(@, "invalid"), !.stage = "invalid"]
    /\ pc' = "next_transaction"
    /\ UNCHANGED <<result, idx, artifacts, step_outcome, block, scratch, state_root_hash>>

\* lines 189-194 and 205-210: with_invalid_transaction, push, continue.
InvalidTransaction(t) ==
    /\ PushAndContinue([t EXCEPT !.builder = WithError(@, "invalid"), !.stage = "invalid"])
    /\ UNCHANGED <<scratch, state_root_hash>>

\* lines 186-196: the gas limit, at price 1 (0: the transaction has none).
ComputeGasLimit ==
    /\ pc = "gas_limit"
    /\ \E g \in {0} \cup GasLimits :
         IF g = 0
         THEN InvalidTransaction(tx)
         ELSE /\ GoOn([tx EXCEPT !.gas_limit = g], "gas_cost")
              /\ UNCHANGED <<scratch, state_root_hash>>
    /\ UNCHANGED Providers

\* Transaction::gas_cost: gas limit times the effective gas price.
GasCost(gas_limit, gas_price) == gas_limit * gas_price

\* lines 199-212: the cost.
ComputeCost ==
    /\ pc = "gas_cost"
    /\ \E ok \in BOOLEAN :
         IF ~ok
         THEN InvalidTransaction(tx)
         ELSE /\ GoOn([tx EXCEPT !.cost = GasCost(tx.gas_limit, block.current_gas_price)],
                      "refund_purse")
              /\ UNCHANGED <<scratch, state_root_hash>>
    /\ UNCHANGED Providers

\* lines 214-242: with custom payment, the initiator's main purse is made the
\* refund purse before anything else.
InitRefundPurse ==
    /\ pc = "refund_purse"
    /\ \E std \in BOOLEAN, r \in Results, c \in CommitResults :
         LET t == [tx EXCEPT !.is_standard_payment = std] IN
         IF std
         THEN /\ GoOn(t, "initial_balance")
              /\ UNCHANGED <<scratch, state_root_hash>>
         ELSE CASE r = "RootNotFound" ->
                     /\ Abort("RootNotFound")
                     /\ UNCHANGED scratch
                [] r = "Failure" ->
                     /\ PushAndContinue([t EXCEPT !.builder = WithError(@, "payer"),
                                                  !.stage = "refund_purse_failed"])
                     /\ UNCHANGED <<scratch, state_root_hash>>
                [] r = "Success" /\ c = "Err" ->
                     /\ Abort("CommitEffects")
                     /\ UNCHANGED scratch
                [] r = "Success" /\ c = "Ok" ->
                     /\ Commit("set_refund_purse")
                     /\ GoOn(t, "initial_balance")
    /\ UNCHANGED Providers

\* ExecutionArtifactBuilder::with_initial_balance_result: the available
\* balance must cover the minimum amount.
InsufficientInitialBalance(balance, minimum) == balance < minimum

\* lines 244-267: the initiator's main purse must cover the penalty payment.
CheckInitialBalance ==
    /\ pc = "initial_balance"
    /\ \E r \in Results, balance \in Balances :
         CASE r = "RootNotFound" -> Abort("RootNotFound")
           [] r = "Failure" ->
                /\ PushAndContinue([tx EXCEPT !.builder = WithError(@, "insufficient_balance"),
                                              !.stage = "insufficient_balance"])
                /\ UNCHANGED state_root_hash
           [] r = "Success"
              /\ InsufficientInitialBalance(balance, penalty_payment_amount) ->
                /\ PushAndContinue([tx EXCEPT !.builder = WithError(@, "insufficient_balance"),
                                              !.stage = "insufficient_balance"])
                /\ UNCHANGED state_root_hash
           [] OTHER ->
                /\ GoOn(tx, IF tx.is_standard_payment THEN "standard_payer"
                                                      ELSE "custom_payment")
                /\ UNCHANGED state_root_hash
    /\ UNCHANGED <<scratch, Providers>>

\* lines 1179-1213: invoked_contract_will_pay, by what the transaction and the
\* entry-point read answer.
EntryPointResponses ==
    {"NoDirectAddress", "BadEntryPointAddr", "RootNotFound", "ValueNotFound",
     "Failure", "WillPay", "WontPay"}

InvokedContractWillPay(resp) ==
    CASE resp = "WillPay"      -> "Some"
      [] resp = "WontPay"      -> "None"
      [] resp = "RootNotFound" -> "RootNotFound"
      [] OTHER                 -> "Err"

\* A payer resolution that consults every contract invoked by hash.
ContractMightPayByHashOnly(addressable_entity_enabled, is_contract_by_hash_invocation) ==
    is_contract_by_hash_invocation

\* lines 271-272
ContractMightPay(addressable_entity_enabled, is_contract_by_hash_invocation) ==
    addressable_entity_enabled /\ is_contract_by_hash_invocation

\* lines 269-296: the payer of a standard payment. entry_point is what the
\* entry-point read of the invoked contract answers or would answer.
ResolveStandardPayer ==
    /\ pc = "standard_payer"
    /\ \E is_contract_by_hash_invocation \in BOOLEAN,
          resp \in EntryPointResponses \cup {"none"} :
         /\ is_contract_by_hash_invocation <=> resp # "none"
         /\ LET contract_might_pay ==
                    ContractMightPay(block.addressable_entity_enabled,
                                     is_contract_by_hash_invocation)
                will_pay == IF contract_might_pay THEN InvokedContractWillPay(resp)
                                                  ELSE "None"
                t == [tx EXCEPT !.is_contract_by_hash_invocation =
                                    is_contract_by_hash_invocation,
                                !.entry_point = resp] IN
            CASE will_pay = "Some" ->
                   GoOn([t EXCEPT !.balance_identifier = "Entity"], "eligibility")
              [] will_pay = "None" ->
                   GoOn([t EXCEPT !.balance_identifier = "Account"], "eligibility")
              [] will_pay = "RootNotFound" -> Abort("RootNotFound")
              [] will_pay = "Err" ->
                   GoOn([t EXCEPT !.builder = WithError(@, "payer"),
                                  !.balance_identifier = "PenalizedAccount"], "eligibility")
    /\ UNCHANGED <<scratch, state_root_hash, Providers>>

\* What the execution engine answers: an optional error, effects, consumed gas.
WasmErrors == {"none", "Error", "RootNotFound"}

\* ExecutionArtifactBuilder::with_wasm_v1_result (for a result whose error is
\* not RootNotFound): the consumed gas is added, the error recorded.
WithWasmV1Result(b, wasm, e) ==
    LET c == WithAddedConsumed(b, wasm.consumed) IN
    IF wasm.error = "none" THEN c ELSE WithError(c, e)

\* lines 297-357: custom payment. On failure the penalty payment is
\* transferred from the initiator to the payment purse; the transfer's
\* effects go to the artifact, the payment's effects are committed.
CustomPayment ==
    /\ pc = "custom_payment"
    /\ \E req \in {"Ok", "Err"}, ins \in {"Ok", "Err"}, pe \in WasmErrors,
          peff \in {"none", "data"}, pcons \in 0..MaxPaymentGas,
          tr \in Results, c \in CommitResults :
         LET pay_result ==
                 IF req = "Err"
                 THEN [error |-> "Error", effects |-> "none", consumed |-> 0]
                 ELSE [error |-> pe, effects |-> peff, consumed |-> pcons]
             failed == pay_result.error # "none"
             b1 == IF failed THEN WithResult(tx.builder, tr, "payer") ELSE tx.builder
             t == [tx EXCEPT
                     !.balance_identifier = IF failed THEN "PenalizedPayment" ELSE "Payment",
                     !.penalty = IF failed /\ tr = "Success"
                                 THEN penalty_payment_amount ELSE 0,
                     !.payment_consumed = pay_result.consumed,
                     !.builder = WithWasmV1Result(b1, pay_result, "payer")]
         IN
         CASE req = "Ok" /\ ins = "Err" ->
                /\ Abort("PaymentError")
                /\ UNCHANGED scratch
           [] (req = "Err" \/ ins = "Ok") /\ failed /\ tr = "RootNotFound" ->
                /\ Abort("RootNotFound")
                /\ UNCHANGED scratch
           [] (req = "Err" \/ ins = "Ok") /\ ~(failed /\ tr = "RootNotFound")
              /\ c = "Err" ->
                /\ Abort("CommitEffects")
                /\ UNCHANGED scratch
           [] (req = "Err" \/ ins = "Ok") /\ ~(failed /\ tr = "RootNotFound")
              /\ c = "Ok" /\ pay_result.error = "RootNotFound" ->
                /\ Abort("RootNotFound")
                /\ scratch' = ApplyEffects(scratch, pay_result.effects, tx.hash)
           [] OTHER ->
                /\ Commit(pay_result.effects)
                /\ GoOn(t, "eligibility")
    /\ UNCHANGED Providers

\* BalanceIdentifier::is_penalty
IsPenalty(balance_identifier) ==
    balance_identifier \in {"PenalizedAccount", "PenalizedPayment"}

\* BalanceResult::is_sufficient: only a successful read of a balance that
\* covers the cost.
IsSufficient(r, balance, cost) == r = "Success" /\ balance >= cost

\* An eligibility gate that does not look at the lane.
AllowExecutionAnyLane(is_not_penalized, sufficient_balance, is_supported) ==
    is_not_penalized /\ sufficient_balance

\* lines 370-376
AllowExecution(is_not_penalized, sufficient_balance, is_supported) ==
    is_not_penalized /\ sufficient_balance /\ is_supported

\* A hold for every eligible transaction, whatever its payment.
PlacesProcessingHoldAnyPayment(allow_execution, is_standard_payment) ==
    allow_execution

\* lines 378-379: if allow_execution { if is_standard_payment { .. } }
PlacesProcessingHold(allow_execution, is_standard_payment) ==
    allow_execution /\ is_standard_payment

\* line 381: let hold_amount = cost;
HoldAmount(cost) == cost

\* A skip that goes straight to the refund.
StepAfterEligibilitySkippingClear(allow_execution, places_hold) ==
    IF ~allow_execution THEN "handle_refund"
    ELSE IF places_hold THEN "processing_hold" ELSE "dispatch"

\* lines 378-493: an eligible transaction goes to its hold or its lane, any
\* other one to the clear of holds that follows the lanes.
StepAfterEligibility(allow_execution, places_hold) ==
    IF ~allow_execution THEN "clear_holds"
    ELSE IF places_hold THEN "processing_hold" ELSE "dispatch"

\* lines 360-378: the post-payment balance of the payer and the eligibility.
CheckEligibility ==
    /\ pc = "eligibility"
    /\ \E r \in Results, balance \in Balances, is_supported \in BOOLEAN :
         LET sufficient_balance == IsSufficient(r, balance, tx.cost)
             allow == AllowExecution(~IsPenalty(tx.balance_identifier),
                                     sufficient_balance, is_supported) IN
         GoOn([tx EXCEPT !.is_contract_by_hash_invocation = FALSE,
                         !.entry_point = "none",
                         !.post_payment_balance_result = r,
                         !.sufficient_balance = sufficient_balance,
                         !.is_supported = is_supported, !.allow_execution = allow],
              StepAfterEligibility(
                  allow, PlacesProcessingHold(allow, tx.is_standard_payment)))
    /\ UNCHANGED <<scratch, state_root_hash, Providers>>

\* One sub-operation of the loop body, as the code handles it everywhere:
\* commit_effects(state_root_hash, result.effects())?, then the builder takes
\* the result and RootNotFound ends the block.
CommitThenRecord(r, c, eff, t, next) ==
    CASE c = "Err" ->
           /\ Abort("CommitEffects")
           /\ UNCHANGED scratch
      [] c = "Ok" /\ r = "RootNotFound" ->
           /\ Abort("RootNotFound")
           /\ UNCHANGED scratch
      [] OTHER ->
           /\ Commit(EffectsOf(r, eff))
           /\ GoOn(t, next)

\* lines 378-395: a processing hold for the cost on the payer's purse.
PlaceProcessingHold ==
    /\ pc = "processing_hold"
    /\ \E r \in Results, c \in CommitResults :
         CommitThenRecord(r, c, "processing_hold",
                          [tx EXCEPT !.hold_amount = HoldAmount(tx.cost),
                                     !.hold_result = r,
                                     !.builder = WithResult(@, r, "settlement")], "dispatch")
    /\ UNCHANGED Providers

\* A native lane that reports no gas.
NativeConsumedNothing(gas_limit) == 0

\* lines 410, 432: let consumed = gas_limit;
NativeConsumed(gas_limit) == gas_limit

\* lines 399-417: the native transfer lane.
NativeTransfer ==
    /\ pc = "dispatch"
    /\ \E r \in Results, c \in CommitResults :
         CommitThenRecord(r, c, "data",
             [tx EXCEPT !.dispatched = TRUE, !.lane = "mint", !.lane_result = r,
                        !.builder = WithResult(
                            WithAddedConsumed(@, NativeConsumed(tx.gas_limit)),
                            r, "execution")],
             "clear_holds")
    /\ UNCHANGED Providers

\* A builder that drops the error of the auction method.
WithAuctionMethodErrorDropped(b) == b

\* ExecutionArtifactBuilder::with_auction_method_error
WithAuctionMethodError(b) == WithError(b, "execution")

\* lines 418-449: the native auction lane.
NativeAuction ==
    /\ pc = "dispatch"
    /\ \E parsed \in BOOLEAN, r \in Results, c \in CommitResults :
         IF ~parsed
         THEN /\ GoOn([tx EXCEPT !.dispatched = TRUE, !.lane = "auction",
                                 !.auction_method = "Err",
                                 !.builder = WithAuctionMethodError(@)],
                      "clear_holds")
              /\ UNCHANGED <<scratch, state_root_hash>>
         ELSE CommitThenRecord(r, c, "data",
                  [tx EXCEPT !.dispatched = TRUE, !.lane = "auction",
                             !.auction_method = "Ok", !.lane_result = r,
                             !.builder = WithResult(
                                 WithAddedConsumed(@, NativeConsumed(tx.gas_limit)),
                                 r, "execution")],
                  "clear_holds")
    /\ UNCHANGED Providers

\* lines 450-487: the generic lane.
GenericLane ==
    /\ pc = "dispatch"
    /\ \E req \in {"Ok", "Err"}, we \in WasmErrors, weff \in {"none", "data"},
          consumed \in 0..tx.gas_limit, c \in CommitResults :
         IF req = "Err"
         THEN /\ GoOn([tx EXCEPT !.dispatched = TRUE, !.lane = "generic",
                                 !.builder = WithError(@, "execution")],
                      "clear_holds")
              /\ UNCHANGED <<scratch, state_root_hash>>
         ELSE LET wasm == [error |-> we, effects |-> weff, consumed |-> consumed] IN
              CASE c = "Err" ->
                     /\ Abort("CommitEffects")
                     /\ UNCHANGED scratch
                [] c = "Ok" /\ we = "RootNotFound" ->
                     /\ Abort("RootNotFound")
                     /\ scratch' = ApplyEffects(scratch, weff, tx.hash)
                [] OTHER ->
                     /\ Commit(weff)
                     /\ GoOn([tx EXCEPT !.dispatched = TRUE, !.lane = "generic",
                                        !.builder = WithWasmV1Result(@, wasm, "execution")],
                             "clear_holds")
    /\ UNCHANGED Providers

\* BalanceHoldKind::All: the clear removes every hold on the purse, the gas
\* holds earlier transactions placed on it as well as the processing hold.
ClearedHolds(s, t, gas_holds_on_purse) ==
    [ApplyEffects(s, "clear_holds", t) EXCEPT !.gas_holds = @ \ gas_holds_on_purse]

\* lines 493-507: clear all holds on the payer's purse. gas_holds_on_purse
\* are the earlier transactions of the block whose gas hold is on the purse
\* this transaction's balance identifier names.
ClearHolds ==
    /\ pc = "clear_holds"
    /\ \E r \in Results, c \in CommitResults,
          gas_holds_on_purse \in SUBSET scratch.gas_holds :
         CASE c = "Err" ->
                /\ Abort("CommitEffects")
                /\ UNCHANGED scratch
           [] c = "Ok" /\ r = "RootNotFound" ->
                /\ Abort("RootNotFound")
                /\ UNCHANGED scratch
           [] OTHER ->
                /\ scratch' = IF r = "Success"
                              THEN ClearedHolds(scratch, tx.hash, gas_holds_on_purse)
                              ELSE scratch
                /\ state_root_hash' = scratch'
                /\ GoOn([tx EXCEPT !.builder = WithResult(@, r, "settlement"),
                                   !.clear_hold_result = r,
                                   !.post_payment_balance_result = "none",
                                   !.sufficient_balance = FALSE,
                                   !.is_supported = FALSE],
                        "handle_refund")
    /\ UNCHANGED Providers

\* A custom hold under NoRefund and NoFee, whatever the payment.
RefundModeCustomHoldAnyPayment(refund_handling, fee_handling, is_standard_payment) ==
    CASE refund_handling = "NoRefund" ->
           IF fee_handling = "NoFee" THEN "CustomHold" ELSE "None"
      [] refund_handling = "Burn" -> "Burn"
      [] refund_handling = "Refund" ->
           IF is_standard_payment THEN "RefundAmount" ELSE "Refund"

\* lines 512-563: the refund mode the chainspec's settings select.
RefundMode(refund_handling, fee_handling, is_standard_payment) ==
    CASE refund_handling = "NoRefund" ->
           IF fee_handling = "NoFee" /\ ~is_standard_payment THEN "CustomHold" ELSE "None"
      [] refund_handling = "Burn" -> "Burn"
      [] refund_handling = "Refund" ->
           IF is_standard_payment THEN "RefundAmount" ELSE "Refund"

\* HandleRefundResult::refund_amount of a successful handle_refund: nothing
\* for a custom hold (the whole charge stays held), otherwise the configured
\* share of the unspent part of the cost.
RefundAmount(mode, gas_limit, gas_price, consumed, ratio) ==
    IF mode = "CustomHold" THEN 0
    ELSE LET unspent == IF consumed >= gas_limit THEN 0 ELSE gas_limit - consumed
         IN (unspent * gas_price * ratio) \div RatioDenominator

\* lines 509-584: refunds, per the chainspec's refund handling.
HandleRefund ==
    /\ pc = "handle_refund"
    /\ LET mode == RefundMode(block.refund_handling, block.fee_handling,
                              tx.is_standard_payment)
           id == IF mode = "CustomHold" THEN "Refund" ELSE tx.balance_identifier
           next == IF block.fee_handling = "NoFee" THEN "gas_hold" ELSE "handle_fee"
       IN
       IF mode = "None"
       THEN /\ GoOn([tx EXCEPT !.refund_amount = 0, !.refund_mode = mode], next)
            /\ UNCHANGED <<scratch, state_root_hash>>
       ELSE \E r \in Results, c \in CommitResults :
              LET amount == IF r = "Success"
                            THEN RefundAmount(mode, tx.gas_limit, block.current_gas_price,
                                              tx.builder.consumed, block.refund_ratio)
                            ELSE 0
                  eff == IF amount > 0 \/ mode = "CustomHold" THEN "data" ELSE "none"
              IN CommitThenRecord(r, c, eff,
                     [tx EXCEPT !.balance_identifier = id, !.refund_amount = amount,
                                !.refund_mode = mode,
                                !.builder = WithResult(@, r, "settlement")],
                     next)
    /\ UNCHANGED Providers

\* A fee amount that is the whole cost, whatever was refunded.
FeeAmountIgnoringRefund(cost, refund_amount) == cost

\* A fee amount that grows with the refund.
FeeAmountAddingRefund(cost, refund_amount) == cost + refund_amount

\* lines 591, 616, 628, 646: cost.saturating_sub(refund_amount)
FeeAmount(cost, refund_amount) ==
    IF refund_amount >= cost THEN 0 ELSE cost - refund_amount

\* lines 588-604: without fees, a gas hold for the fee amount on the payer's purse.
PlaceGasHold ==
    /\ pc = "gas_hold"
    /\ \E r \in Results, c \in CommitResults :
         CommitThenRecord(r, c, "gas_hold",
                          [tx EXCEPT !.gas_hold_purse = tx.balance_identifier,
                                     !.gas_hold_amount =
                                         FeeAmount(tx.cost, tx.refund_amount),
                                     !.builder = WithResult(@, r, "settlement")],
                          "handle_fee")
    /\ UNCHANGED Providers

\* Fees that are paid go to the accumulation purse, whoever proposed.
HandleFeeModePaidToAccumulate(fee_handling, balance_identifier, amount) ==
    CASE fee_handling = "NoFee" ->
           [kind |-> "credit", source |-> "none", target |-> "proposer",
            amount |-> amount]
      [] fee_handling = "Burn" ->
           [kind |-> "burn", source |-> balance_identifier, target |-> "none",
            amount |-> amount]
      [] OTHER ->
           [kind |-> "pay", source |-> balance_identifier, target |-> "Accumulate",
            amount |-> amount]

\* lines 605-659: the HandleFeeMode of the request: credit(proposer, amount,
\* era_id), burn(balance_identifier, Some(amount)), or pay(initiator,
\* balance_identifier, target, amount) with the proposer's public key or the
\* accumulation purse as the target.
HandleFeeMode(fee_handling, balance_identifier, amount) ==
    CASE fee_handling = "NoFee" ->
           [kind |-> "credit", source |-> "none", target |-> "proposer",
            amount |-> amount]
      [] fee_handling = "Burn" ->
           [kind |-> "burn", source |-> balance_identifier, target |-> "none",
            amount |-> amount]
      [] fee_handling = "PayToProposer" ->
           [kind |-> "pay", source |-> balance_identifier, target |-> "Public",
            amount |-> amount]
      [] fee_handling = "Accumulate" ->
           [kind |-> "pay", source |-> balance_identifier, target |-> "Accumulate",
            amount |-> amount]

\* lines 586-668: fees, per the chainspec's fee handling: the proposer is
\* credited (NoFee), or the amount is burned or paid from the payer's purse.
HandleFee ==
    /\ pc = "handle_fee"
    /\ \E r \in Results, c \in CommitResults :
         CommitThenRecord(r, c, "data",
             [tx EXCEPT !.fee_amount = FeeAmount(tx.cost, tx.refund_amount),
                        !.handle_fee_mode =
                            HandleFeeMode(block.fee_handling, tx.balance_identifier,
                                          FeeAmount(tx.cost, tx.refund_amount)),
                        !.builder = WithResult(@, r, "settlement")],
             "finish")
    /\ UNCHANGED Providers

\* lines 670-702: the refund purse is cleared if it was set, and the artifact
\* is pushed.
FinishTransaction ==
    /\ pc = "finish"
    /\ LET refund_purse_active == ~tx.is_standard_payment IN
       IF ~refund_purse_active
       THEN /\ PushAndContinue([tx EXCEPT !.stage = "settled"])
            /\ UNCHANGED <<scratch, state_root_hash>>
       ELSE \E r \in Results, c \in CommitResults :
              CASE r = "RootNotFound" ->
                     /\ Abort("RootNotFound")
                     /\ UNCHANGED scratch
                [] r # "RootNotFound" /\ c = "Err" ->
                     /\ Abort("CommitEffects")
                     /\ UNCHANGED scratch
                [] OTHER ->
                     /\ Commit(EffectsOf(r, "clear_refund_purse"))
                     /\ PushAndContinue(
                            [tx EXCEPT !.stage = "settled",
                                       !.builder = WithResult(@, r, "settlement")])
    /\ UNCHANGED Providers

\* ------------------------------------------------------------ post-processing
\* The post-processing steps change the providers' state themselves.
PostGoOn(next) ==
    /\ pc' = next
    /\ UNCHANGED <<result, idx, artifacts, tx>>

\* line 722: artifacts.iter().map(|artifact| &artifact.execution_result);
\* of an execution result the artifact keeps whether it carries an error.
ExecutionResultsOf(execution_artifacts) ==
    [i \in 1..Len(execution_artifacts) |-> execution_artifacts[i].failed]

\* ExecutionResult::write_bytes: an encoding of fixed length, one byte that
\* tells a result with an error message from one without.
ToBytes(execution_result) == <<IF execution_result THEN 1 ELSE 0>>

\* lines 1291-1295: the results are written one after the other, in order.
RECURSIVE WriteAll(_)
WriteAll(execution_results) ==
    IF execution_results = <<>> THEN <<>>
    ELSE ToBytes(Head(execution_results)) \o WriteAll(Tail(execution_results))

\* lines 1279-1295: as a Vec<ExecutionResult>, the item count first.
Serialized(execution_results) ==
    <<Len(execution_results)>> \o WriteAll(execution_results)

\* Chunkable::hash, injective: the digest stands for the bytes it was made of.
Hash(bytes) == [digest_of |-> bytes]

\* A checksum that counts the results with and without an error.
ComputeExecutionResultsChecksumUnordered(execution_results) ==
    Hash(<<Len(execution_results),
           Cardinality({i \in DOMAIN execution_results : execution_results[i]})>>)

\* lines 1264-1302: compute_execution_results_checksum, where it succeeds.
ComputeExecutionResultsChecksum(execution_results) ==
    Hash(Serialized(execution_results))

\* lines 715-743: the approvals and execution-results checksums go into the
\* checksum registry; the root commit_effects returns is not kept.
\* compute_execution_results_checksum reports a failed reservation or item
\* count as FailedToComputeApprovalsChecksum (lines 1274-1287).
WriteChecksums ==
    /\ pc = "checksums"
    /\ \E approvals \in {"Ok", "Err"},
          results \in {"Ok", "OutOfMemory", "NotRepresentable", "Err"},
          clvalue \in {"Ok", "Err"}, c \in CommitResults :
         CASE approvals = "Err" ->
                /\ Abort("FailedToComputeApprovalsChecksum")
                /\ UNCHANGED scratch
           [] approvals = "Ok" /\ results \in {"OutOfMemory", "NotRepresentable"} ->
                /\ Abort("FailedToComputeApprovalsChecksum")
                /\ UNCHANGED scratch
           [] approvals = "Ok" /\ results = "Err" ->
                /\ Abort("FailedToComputeExecutionResultsChecksum")
                /\ UNCHANGED scratch
           [] approvals = "Ok" /\ results = "Ok" /\ clvalue = "Err" ->
                /\ Abort("ChecksumRegistryToCLValue")
                /\ UNCHANGED scratch
           [] approvals = "Ok" /\ results = "Ok" /\ clvalue = "Ok" /\ c = "Err" ->
                /\ Abort("CommitEffects")
                /\ UNCHANGED scratch
           [] OTHER ->
                /\ scratch' = [scratch EXCEPT !.checksum_registry =
                                  {ComputeExecutionResultsChecksum(
                                       ExecutionResultsOf(artifacts))}]
                /\ PostGoOn("distribute_fees")
                /\ UNCHANGED <<state_root_hash, block, step_outcome>>
    /\ UNCHANGED Providers

\* lines 757-780: with a rewards map, the accumulated fees are distributed
\* (distribute_fees commits itself).
DistributeFees ==
    /\ pc = "distribute_fees"
    /\ \E rewards \in BOOLEAN, r \in Results :
         IF ~rewards
         THEN /\ PostGoOn("forced_undelegate")
              /\ UNCHANGED <<scratch, state_root_hash, block, step_outcome>>
         ELSE CASE r = "RootNotFound" ->
                     /\ Abort("RootNotFound")
                     /\ UNCHANGED scratch
                [] r = "Failure" ->
                     /\ Abort("DistributeFees")
                     /\ UNCHANGED scratch
                [] r = "Success" ->
                     /\ scratch' = [scratch EXCEPT !.fees = TRUE]
                     /\ state_root_hash' = scratch'
                     /\ block' = [block EXCEPT !.rewards = TRUE]
                     /\ PostGoOn("block_rewards")
                     /\ UNCHANGED step_outcome
    /\ UNCHANGED Providers

\* A failed reward distribution that is passed over.
BlockRewardsOutcomeIgnoringFailure(r) ==
    IF r = "RootNotFound" THEN "RootNotFound" ELSE "Ok"

\* lines 790-803: the match on the BlockRewardsResult: the error that is
\* returned, or "Ok" to go on.
BlockRewardsOutcome(r) ==
    CASE r = "RootNotFound" -> "RootNotFound"
      [] r = "Failure"      -> "DistributeBlockRewards"
      [] r = "Success"      -> "Ok"

\* lines 782-803: the block rewards are distributed (commits itself).
DistributeBlockRewards ==
    /\ pc = "block_rewards"
    /\ \E r \in Results :
         IF BlockRewardsOutcome(r) # "Ok"
         THEN /\ Abort(BlockRewardsOutcome(r))
              /\ UNCHANGED scratch
         ELSE /\ scratch' = IF r = "Success" THEN [scratch EXCEPT !.rewards = TRUE]
                            ELSE scratch
              /\ state_root_hash' = scratch'
              /\ PostGoOn("forced_undelegate")
              /\ UNCHANGED <<block, step_outcome>>
    /\ UNCHANGED Providers

\* An era-end step that runs for every block.
IsSwitchBlockAlways(era_report) == TRUE

\* line 813: if let Some(era_report) = &executable_block.era_report
IsSwitchBlock(era_report) == era_report = "Some"

\* A failed forced undelegation that is passed over.
ForcedUndelegateOutcomeIgnoringFailure(r) ==
    IF r = "RootNotFound" THEN "RootNotFound" ELSE "Ok"

\* lines 825-837: the match on the ForcedUndelegateResult: the error that
\* is returned, or "Ok" to go on.
ForcedUndelegateOutcome(r) ==
    CASE r = "RootNotFound" -> "RootNotFound"
      [] r = "Failure"      -> "ForcedUndelegate"
      [] r = "Success"      -> "Ok"

\* lines 813-838: on a switch block, delegators outside the delegation limits
\* are undelegated before the auction runs.
ForcedUndelegate ==
    /\ pc = "forced_undelegate"
    /\ \E era_report \in {"None", "Some"}, r \in Results :
         IF ~IsSwitchBlock(era_report)
         THEN /\ step_outcome' = "None"
              /\ PostGoOn("prune")
              /\ UNCHANGED <<scratch, state_root_hash, block>>
         ELSE IF ForcedUndelegateOutcome(r) # "Ok"
              THEN /\ Abort(ForcedUndelegateOutcome(r))
                   /\ UNCHANGED scratch
              ELSE /\ scratch' = IF r = "Success"
                                 THEN [scratch EXCEPT !.undelegated = TRUE]
                                 ELSE scratch
                   /\ state_root_hash' = scratch'
                   /\ block' = [block EXCEPT !.era_report = (era_report = "Some")]
                   /\ PostGoOn("step")
                   /\ UNCHANGED step_outcome
    /\ UNCHANGED Providers

Validators == 1..MaxValidators
Eras == 0..MaxEra

\* An eviction list that leaves the equivocators out.
EvictItemsInactiveOnly(inactive_validators, equivocators) == inactive_validators

\* lines 1230-1234: both inactive validators and equivocators are evicted.
EvictItems(inactive_validators, equivocators) == inactive_validators \cup equivocators

\* lines 1236-1244: StepRequest::new, with vec![] for the slash items.
StepRequest(inactive_validators, equivocators, next_era_id) ==
    [slash_items |-> <<>>,
     evict_items |-> EvictItems(inactive_validators, equivocators),
     next_era_id |-> next_era_id]

\* line 849: executable_block.era_id.successor()
Successor(era_id) == era_id + 1

\* An auction that drops evicted validators: of the bidders, those the
\* request does not evict are the validators of the era the request names.
AuctionStep(bidders, request) == bidders \ request.evict_items

\* lines 840-863 and commit_step, lines 1215-1257: the auction step. In a
\* debug build debug_assert! panics on a result that is not a success.
CommitStep ==
    /\ pc = "step"
    /\ \E r \in Results, debug_assertions \in BOOLEAN, era_id \in Eras,
          inactive_validators \in SUBSET Validators, equivocators \in SUBSET Validators :
         LET step_request == StepRequest(inactive_validators, equivocators,
                                         Successor(era_id)) IN
         CASE r # "Success" /\ debug_assertions ->
                /\ Abort(IF r = "RootNotFound" THEN "panic_root_not_found" ELSE "panic")
                /\ UNCHANGED scratch
           [] r = "RootNotFound" /\ ~debug_assertions ->
                /\ Abort("RootNotFound")
                /\ UNCHANGED scratch
           [] r = "Failure" /\ ~debug_assertions ->
                /\ Abort("Step")
                /\ UNCHANGED scratch
           [] r = "Success" ->
                /\ scratch' = [scratch EXCEPT !.step = TRUE]
                /\ state_root_hash' = scratch'
                /\ block' = [block EXCEPT
                                !.era_id = era_id,
                                !.inactive_validators = inactive_validators,
                                !.equivocators = equivocators,
                                !.step_request = step_request,
                                !.upcoming_era_validators =
                                    AuctionStep(Validators, step_request)]
                /\ PostGoOn("era_validators")
                /\ UNCHANGED step_outcome
    /\ UNCHANGED Providers

\* What data_access_layer.era_validators answers; a success carries the
\* snapshot, with or without an entry for the successor era.
EraValidatorsResults ==
    {"RootNotFound", "AuctionNotFound", "ValueNotFound", "Failure",
     "SuccessWithNextEra", "SuccessWithoutNextEra"}

\* What the durable store holds: the effects of the working copy are in it
\* only once write_scratch_to_db has run (line 971).
DurableState == IF db_written THEN scratch ELSE EmptyState

\* line 867: data_access_layer.era_validators(..): the read is served by the
\* data access layer, not by scratch_state.
EraValidatorsProvider(durable, working) == durable

\* lines 866-897: the validator weights of the upcoming eras are read back.
ReadEraValidators ==
    /\ pc = "era_validators"
    /\ \E r \in EraValidatorsResults :
         CASE r = "RootNotFound" -> Abort("panic_root_not_found")
           [] r \in {"AuctionNotFound", "ValueNotFound"} -> Abort("panic")
           [] r = "Failure" -> Abort("GetEraValidators")
           [] OTHER ->
                /\ step_outcome' = r
                /\ PostGoOn("prune")
                /\ LET served == EraValidatorsProvider(DurableState, scratch) IN
                   block' = [block EXCEPT !.era_validators_observed =
                                [undelegated |-> served.undelegated,
                                 step |-> served.step]]
                /\ UNCHANGED state_root_hash
    /\ UNCHANGED <<scratch, Providers>>

PruneResults == {"RootNotFound", "MissingKey", "Success", "Failure"}

\* lines 899-965: pruning. There is a previous block when the height is not
\* 0; calculate_prune_eras gives the keys to prune, if any.
\* The era report and the step request are not used after the step outcome
\* is made.
EraReportForgotten(b) ==
    [b EXCEPT !.era_id = 0, !.inactive_validators = {}, !.equivocators = {},
              !.era_validators_observed = [undelegated |-> FALSE, step |-> FALSE],
              !.step_request = NoStepRequest, !.upcoming_era_validators = {}]

\* A prune request for every block that has a previous block.
KeysToPruneWithoutKeys(height, prune_eras) == height # 0

\* lines 901-907: there are keys to prune when the block has a previous
\* block and calculate_prune_eras gives Some.
KeysToPrune(height, prune_eras) == height # 0 /\ prune_eras

\* A failed prune that is passed over.
PruneOutcomeIgnoringFailure(r) ==
    IF r = "RootNotFound" THEN "panic_root_not_found" ELSE "Ok"

\* lines 921-957: the match on the PruneResult: the panic or the error that
\* ends the block, or "Ok" to go on.
PruneOutcome(r) ==
    CASE r = "RootNotFound" -> "panic_root_not_found"
      [] r = "Failure"      -> "TrackingCopy"
      [] r = "MissingKey"   -> "Ok"
      [] r = "Success"      -> "Ok"

Prune ==
    /\ pc = "prune"
    /\ \E height \in Heights, prune_eras \in BOOLEAN, r \in PruneResults :
         LET considered == [EraReportForgotten(block) EXCEPT
                               !.prune_considered = @ + 1,
                               !.prune_eras = (height # 0 /\ prune_eras)]
         IN
         IF ~KeysToPrune(height, prune_eras)
         THEN /\ PostGoOn("write_scratch_to_db")
              /\ block' = considered
              /\ UNCHANGED <<scratch, state_root_hash, step_outcome>>
         ELSE IF PruneOutcome(r) # "Ok"
              THEN /\ Abort(PruneOutcome(r))
                   /\ UNCHANGED scratch
              ELSE /\ scratch' = IF r = "Success"
                                 THEN [scratch EXCEPT !.pruned = TRUE]
                                 ELSE scratch
                   /\ state_root_hash' = IF r = "Success" THEN scratch'
                                         ELSE state_root_hash
                   /\ PostGoOn("write_scratch_to_db")
                   /\ block' = [considered EXCEPT !.prune_requests = @ + 1,
                                                  !.prune_result = r]
                   /\ UNCHANGED step_outcome
    /\ UNCHANGED Providers

\* A durable write whose root is not taken.
WriteScratchToDbKeepingRoot(root, working) == root

\* DataAccessLayer::write_scratch_to_db: the root of the durable store after
\* the working copy's changes are written to it.
WriteScratchToDbRoot(root, working) == working

\* line 971: the working copy is written to LMDB; the new root comes back.
WriteScratchToDb ==
    /\ pc = "write_scratch_to_db"
    /\ \E w \in {"Ok", "Err"} :
         IF w = "Err"
         THEN /\ Abort("Lmdb")
              /\ UNCHANGED db_written
         ELSE /\ db_written' = TRUE
              /\ state_root_hash' = WriteScratchToDbRoot(state_root_hash, scratch)
              /\ PostGoOn("flush")
              /\ block' = [block EXCEPT !.db_writes = @ + 1]
              /\ UNCHANGED step_outcome
    /\ UNCHANGED <<scratch, scratch_created, state_touched, flushed>>

\* lines 978-985: flush once, after all data mutation.
Flush ==
    /\ pc = "flush"
    /\ \E f \in {"Ok", "Err"} :
         IF f = "Err"
         THEN /\ Abort("Lmdb")
              /\ UNCHANGED flushed
         ELSE /\ flushed' = TRUE
              /\ PostGoOn("era_end")
              /\ block' = [block EXCEPT !.flushes = @ + 1]
              /\ UNCHANGED <<state_root_hash, step_outcome>>
    /\ UNCHANGED <<scratch, scratch_created, state_touched, db_written>>

\* lines 994-1008: the next era's validator weights and gas price, if the
\* step outcome has an entry for the successor era.
MaybeNextEraValidatorWeights(outcome, next_era_gas_price) ==
    outcome = "SuccessWithNextEra" /\ next_era_gas_price

\* An era end that is left out when the next era's validators are missing.
EraEndOrNone(era_report, maybe_next_era_validator_weights) ==
    IF era_report /\ maybe_next_era_validator_weights THEN "Some" ELSE "None"

\* lines 1010-1046: the era end of the block.
EraEnd(era_report, maybe_next_era_validator_weights) ==
    CASE ~era_report /\ ~maybe_next_era_validator_weights -> "None"
      [] era_report /\ maybe_next_era_validator_weights   -> "Some"
      [] OTHER                                            -> "FailedToCreateEraEnd"

\* The next era's gas price is an argument the gas price guard has let by.
BuildEraEnd ==
    /\ pc = "era_end"
    /\ \E next_era_gas_price \in BOOLEAN :
         /\ ~(block.era_report /\ ~next_era_gas_price)
         /\ LET era_end ==
                   EraEnd(block.era_report,
                          MaybeNextEraValidatorWeights(step_outcome, next_era_gas_price)) IN
            IF era_end = "FailedToCreateEraEnd"
            THEN Abort("FailedToCreateEraEnd")
            ELSE /\ PostGoOn("proof")
                 /\ block' = [block EXCEPT !.era_end = era_end]
                 /\ UNCHANGED <<state_root_hash, step_outcome>>
    /\ UNCHANGED <<scratch, Providers>>

\* lines 1048-1095: the block is assembled and the proof of the checksum
\* registry is read at the new root.
ReadChecksumProof ==
    /\ pc = "proof"
    /\ \E tc \in {"Err", "None", "Some"}, read \in {"Ok", "Err"} :
         CASE tc = "Err" -> Abort("TrackingCopy")
           [] tc = "None" -> Abort("RootNotFound")
           [] tc = "Some" /\ read = "Err" -> Abort("TrackingCopy")
           [] tc = "Some" /\ read = "Ok" /\ state_root_hash.checksum_registry = {} ->
                Abort("MissingChecksumRegistry")
           [] OTHER ->
                /\ pc' = "done"
                /\ result' = "Ok"
                /\ UNCHANGED <<idx, artifacts, tx, state_root_hash, block, step_outcome>>
    /\ UNCHANGED <<scratch, Providers>>

Next ==
    \/ CheckHeight
    \/ CheckNextEraGasPrice
    \/ PreProcessing
    \/ WriteBlockTime
    \/ NextTransaction
    \/ ComputeGasLimit
    \/ ComputeCost
    \/ InitRefundPurse
    \/ CheckInitialBalance
    \/ ResolveStandardPayer
    \/ CustomPayment
    \/ CheckEligibility
    \/ PlaceProcessingHold
    \/ NativeTransfer
    \/ NativeAuction
    \/ GenericLane
    \/ ClearHolds
    \/ HandleRefund
    \/ PlaceGasHold
    \/ HandleFee
    \/ FinishTransaction
    \/ WriteChecksums
    \/ DistributeFees
    \/ DistributeBlockRewards
    \/ ForcedUndelegate
    \/ CommitStep
    \/ ReadEraValidators
    \/ Prune
    \/ WriteScratchToDb
    \/ Flush
    \/ BuildEraEnd
    \/ ReadChecksumProof

Spec == Init /\ [][Next]_vars

\* ------------------------------------------------------- speculative execution
\* speculatively_execute, lines 1097-1177, is a call of its own on the state
\* provider. In its runs tx is the input transaction, idx counts the
\* executions started (a transfer or a run of the execution engine),
\* artifacts holds what the execution answered, result is the kind of the
\* SpeculativeExecutionResult, state_root_hash the state at the block
\* header's root; there is no working copy.
TransactionKinds == {"Deploy", "V1"}

NoInputTransaction == [kind |-> "Deploy", is_native |-> FALSE, gas_limit |-> 0]

\* What earlier calls may have left of the state provider.
ProviderStates ==
    {<<FALSE, FALSE, FALSE>>, <<TRUE, FALSE, FALSE>>, <<TRUE, TRUE, FALSE>>,
     <<TRUE, TRUE, TRUE>>}

InitSpeculative ==
    /\ pc = "speculative"
    /\ result = "none"
    /\ block = NoBlock
    /\ \E p \in ProviderStates :
         /\ scratch_created = p[1] /\ state_touched = p[1]
         /\ db_written = p[2]
         /\ flushed = p[3]
    /\ scratch = EmptyState
    /\ state_root_hash \in {EmptyState, [EmptyState EXCEPT !.block_time = TRUE]}
    /\ idx = 0
    /\ artifacts = <<>>
    /\ \E kind \in TransactionKinds : tx = [NoInputTransaction EXCEPT !.kind = kind]
    /\ step_outcome = "unset"

\* The call returns; it has no locals the model keeps but the input.
SpeculativeReturn(kind, answer) ==
    /\ pc' = "done"
    /\ result' = kind
    /\ artifacts' = answer

\* Nothing of the state provider is written in a speculative call: its code
\* has no commit_effects, no write_scratch_to_db, no flush_environment.
ProviderState ==
    <<scratch_created, state_touched, scratch, state_root_hash, db_written, flushed>>

\* lines 1111-1116: MetaTransaction::from
SpeculativeConvert ==
    /\ pc = "speculative"
    /\ \E conv \in {"Ok", "Err"} :
         IF conv = "Err"
         THEN SpeculativeReturn("InvalidTransaction", <<>>)
         ELSE /\ pc' = "speculative_gas_limit"
              /\ UNCHANGED <<result, artifacts>>
    /\ UNCHANGED <<tx, idx, block, step_outcome, ProviderState>>

\* lines 1123-1128: the gas limit (0: the transaction has none).
SpeculativeGasLimit ==
    /\ pc = "speculative_gas_limit"
    /\ \E g \in {0} \cup GasLimits :
         IF g = 0
         THEN /\ SpeculativeReturn("InvalidGasLimit", <<>>)
              /\ UNCHANGED tx
         ELSE /\ pc' = "speculative_dispatch"
              /\ tx' = [tx EXCEPT !.gas_limit = g]
              /\ UNCHANGED <<result, artifacts>>
    /\ UNCHANGED <<idx, block, step_outcome, ProviderState>>

\* A dispatch that executes transactions of every kind.
IsDeployTransactionOrV1(kind) == kind \in TransactionKinds

\* line 1130: transaction.is_deploy_transaction()
IsDeployTransaction(kind) == kind = "Deploy"

\* lines 1174-1176: a transaction that is not a deploy is not executed.
SpeculativeReceivedV1 ==
    /\ pc = "speculative_dispatch"
    /\ ~IsDeployTransaction(tx.kind)
    /\ SpeculativeReturn("ReceivedV1Transaction", <<>>)
    /\ UNCHANGED <<tx, idx, block, step_outcome, ProviderState>>

\* lines 1131-1153: a native deploy is a transfer; the TransferResult goes
\* into the answer.
SpeculativeTransfer ==
    /\ pc = "speculative_dispatch"
    /\ IsDeployTransaction(tx.kind)
    /\ \E r \in Results :
         SpeculativeReturn("WasmV1",
             <<[error |-> IF r = "Success" THEN "none" ELSE r,
                effects |-> EffectsOf(r, "data"), consumed |-> 0]>>)
    /\ tx' = [tx EXCEPT !.is_native = TRUE]
    /\ idx' = idx + 1
    /\ UNCHANGED <<block, step_outcome, ProviderState>>

\* lines 1154-1173: a session deploy is run by the execution engine, unless
\* no request can be made of it; the WasmV1Result goes into the answer.
SpeculativeSession ==
    /\ pc = "speculative_dispatch"
    /\ IsDeployTransaction(tx.kind)
    /\ \E req \in {"Ok", "Err"}, we \in WasmErrors, weff \in {"none", "data"},
          consumed \in 0..tx.gas_limit :
         IF req = "Err"
         THEN /\ SpeculativeReturn("WasmV1",
                      <<[error |-> "Error", effects |-> "none", consumed |-> 0]>>)
              /\ UNCHANGED idx
         ELSE /\ SpeculativeReturn("WasmV1",
                      <<[error |-> we, effects |-> weff, consumed |-> consumed]>>)
              /\ idx' = idx + 1
    /\ UNCHANGED <<tx, block, step_outcome, ProviderState>>

NextSpeculative ==
    \/ SpeculativeConvert
    \/ SpeculativeGasLimit
    \/ SpeculativeReceivedV1
    \/ SpeculativeTransfer
    \/ SpeculativeSession

SpecSpeculative == InitSpeculative /\ [][NextSpeculative]_vars

\* ------------------------------------------------------------------ sync leap
\* SyncLeap::validate, src/node/src/types/sync_leap.rs lines 211-322, is a
\* call of its own. In its runs block is the sync leap with the chain its
\* headers come from, tx the locals of validate (headers, signatures,
\* headers_with_sufficient_finality), result the SyncLeapValidationError or
\* "Ok"; the other variables stay as they begin.
\*
\* The block with hash h is the one of height h - 1 and its parent has hash
\* h - 1 (0: the parent of the first block is in no leap); switch_blocks are
\* the hashes of the chain's switch blocks.
Hashes == 1..MaxHash
LeapEras == 0..(MaxHash - 1)

RECURSIVE SeqsUpTo(_, _)
SeqsUpTo(S, n) ==
    IF n = 0 THEN {<<>>}
    ELSE LET shorter == SeqsUpTo(S, n - 1) IN
         shorter \cup {Append(q, x) : q \in shorter, x \in S}

Range(q) == {q[i] : i \in DOMAIN q}

\* BlockHeader::parent_hash, height, is_switch_block, is_genesis, era_id,
\* next_block_era_id of the block with hash h.
ParentHash(h) == h - 1
Height(h) == h - 1
HeaderIsSwitchBlock(leap, h) == h \in leap.switch_blocks
IsGenesis(h) == Height(h) = 0
EraId(leap, h) == Cardinality({b \in leap.switch_blocks : b < h})
NextBlockEraId(leap, h) ==
    IF h \in leap.switch_blocks THEN EraId(leap, h) + 1 ELSE EraId(leap, h)

\* A signed block header: the hash of its header, and its block signatures
\* with the era and the block hash they name.
SignedBlockHeaders ==
    [block_header : Hashes, block_signatures : [era_id : LeapEras, block_hash : Hashes]]

SyncLeaps ==
    [switch_blocks : SUBSET Hashes,
     trusted_block_header : Hashes,
     trusted_ancestor_headers : SeqsUpTo(Hashes, MaxLeapLen),
     signed_block_headers : SeqsUpTo(SignedBlockHeaders, MaxLeapLen)]

NoLocals ==
    [headers |-> {}, signatures |-> [e \in LeapEras |-> <<>>],
     headers_with_sufficient_finality |-> <<>>]

InitSyncLeap ==
    /\ pc = "validate"
    /\ result = "none"
    /\ block \in SyncLeaps
    /\ tx = NoLocals
    /\ scratch_created = FALSE
    /\ state_touched = FALSE
    /\ scratch = EmptyState
    /\ state_root_hash = EmptyState
    /\ db_written = FALSE
    /\ flushed = FALSE
    /\ idx = 0
    /\ artifacts = <<>>
    /\ step_outcome = "unset"

\* What validate does not use.
NotOfSyncLeap ==
    <<block, scratch_created, state_touched, scratch, state_root_hash, db_written,
      flushed, idx, artifacts, step_outcome>>

\* return Err(error) or Ok(()): the locals are dropped.
LeapReturn(r) ==
    /\ pc' = "done"
    /\ result' = r
    /\ tx' = NoLocals

\* lines 215-243: the checks made before the walk, in their order.
StructuralCheck(leap, recent_era_count, trusted_ancestor_only) ==
    LET ancestors == leap.trusted_ancestor_headers
        n == Len(ancestors) IN
    CASE n = 0 /\ Height(leap.trusted_block_header) > 0 -> "MissingTrustedAncestors"
      [] ~(n = 0 /\ Height(leap.trusted_block_header) > 0)
         /\ Len(leap.signed_block_headers) > recent_era_count + 1 -> "TooManySwitchBlocks"
      [] OTHER ->
         IF \E i \in 1..(n - 1) : ParentHash(ancestors[i]) # ancestors[i + 1]
         THEN "TrustedAncestorsNotSorted"
         ELSE IF n > 0 /\ ~HeaderIsSwitchBlock(leap, ancestors[n]) /\ ~IsGenesis(ancestors[n])
         THEN "MissingAncestorSwitchBlock"
         ELSE IF \E i \in 1..(n - 1) : HeaderIsSwitchBlock(leap, ancestors[i])
         THEN "UnexpectedAncestorSwitchBlock"
         ELSE IF trusted_ancestor_only /\ leap.signed_block_headers # <<>>
         THEN "UnexpectedSignedBlockHeaders"
         ELSE "Ok"

\* SyncLeap::headers, lines 178-182, as the keys of the map of line 246.
LeapHeaders(leap) ==
    {leap.trusted_block_header} \cup Range(leap.trusted_ancestor_headers)
        \cup {leap.signed_block_headers[i].block_header
                 : i \in DOMAIN leap.signed_block_headers}

\* lines 250-256: the block signatures by era, in the leap's order.
RECURSIVE SignaturesOfEra(_, _)
SignaturesOfEra(signed_block_headers, e) ==
    IF signed_block_headers = <<>> THEN <<>>
    ELSE LET sigs == Head(signed_block_headers).block_signatures
             rest == SignaturesOfEra(Tail(signed_block_headers), e) IN
         IF sigs.era_id = e THEN <<sigs>> \o rest ELSE rest

\* lines 215-259: the checks, then the locals of the walk are set up.
LeapStructuralChecks ==
    /\ pc = "validate"
    /\ \E recent_era_count \in 0..1, trusted_ancestor_only \in BOOLEAN :
         LET r == StructuralCheck(block, recent_era_count, trusted_ancestor_only) IN
         IF r # "Ok"
         THEN LeapReturn(r)
         ELSE /\ pc' = "walk"
              /\ tx' = [headers |-> LeapHeaders(block),
                        signatures |->
                            [e \in LeapEras |->
                                SignaturesOfEra(block.signed_block_headers, e)],
                        headers_with_sufficient_finality |->
                            <<block.trusted_block_header>>]
              /\ UNCHANGED result
    /\ UNCHANGED NotOfSyncLeap

\* The block hashes the signatures of a group name, in the group's order.
BlockHashesOf(era_sigs) == [i \in DOMAIN era_sigs |-> era_sigs[i].block_hash]

\* lines 261-290: one turn of the loop. The hash on top of the stack is
\* popped; if its header is still in the map the header is taken out and its
\* parent pushed, and if it is a switch block the signatures of its next era
\* are taken out, checked, and the blocks they name pushed.
LeapWalk ==
    /\ pc = "walk"
    /\ tx.headers_with_sufficient_finality # <<>>
    /\ LET stack == tx.headers_with_sufficient_finality
           hash == stack[Len(stack)]
           popped == SubSeq(stack, 1, Len(stack) - 1) IN
       IF hash \notin tx.headers
       THEN /\ tx' = [tx EXCEPT !.headers_with_sufficient_finality = popped]
            /\ UNCHANGED <<pc, result>>
       ELSE LET era == NextBlockEraId(block, hash)
                era_sigs == IF HeaderIsSwitchBlock(block, hash) /\ era \in LeapEras
                            THEN tx.signatures[era] ELSE <<>> IN
            \E sufficient \in BOOLEAN :
               IF era_sigs # <<>> /\ ~sufficient
               THEN LeapReturn("HeadersNotSufficientlySigned")
               ELSE /\ tx' = [headers |-> tx.headers \ {hash},
                              signatures |-> IF era_sigs # <<>>
                                             THEN [tx.signatures EXCEPT ![era] = <<>>]
                                             ELSE tx.signatures,
                              headers_with_sufficient_finality |->
                                  Append(popped, ParentHash(hash))
                                      \o BlockHashesOf(era_sigs)]
                    /\ UNCHANGED <<pc, result>>
    /\ UNCHANGED NotOfSyncLeap

\* A proof taken for complete whenever no header is left over.
IncompleteProofHeadersOnly(headers, signatures) == headers # {}

\* lines 292-299: any orphaned headers or signatures make an incomplete proof.
IncompleteProof(headers, signatures) ==
    headers # {} \/ \E e \in DOMAIN signatures : signatures[e] # <<>>

\* lines 292-322: after the walk, the proof must be complete; then every
\* signed header is validated and its signatures verified.
LeapCheckProof ==
    /\ pc = "walk"
    /\ tx.headers_with_sufficient_finality = <<>>
    /\ \E v \in {"Ok", "BlockWithMetadata", "Crypto"} :
         IF IncompleteProof(tx.headers, tx.signatures)
         THEN LeapReturn("IncompleteProof")
         ELSE LeapReturn(IF block.signed_block_headers = <<>> THEN "Ok" ELSE v)
    /\ UNCHANGED NotOfSyncLeap

NextSyncLeap ==
    \/ LeapStructuralChecks
    \/ LeapWalk
    \/ LeapCheckProof

SpecSyncLeap == InitSyncLeap /\ [][NextSyncLeap]_vars

\* ------------------------------------------------------------------ peer list
\* PeerList, src/node/src/components/block_synchronizer/peer_list.rs, is an
\* object of its own. In its runs block is the PeerList (peer_list, latch,
\* max_simultaneous_peers; a node that is no key of the map is "Absent") and
\* tx the last call made of it: the method, its argument (0: None) and what
\* it returned; the other variables stay as they begin.
NodeIds == 1..MaxPeers
PeerQualities == {"Unknown", "Unresponsive", "Unreliable", "Reliable", "Dishonest"}
Timestamps == 0..MaxTime

\* No call yet.
NoCall == [call |-> "new", peer |-> 0, returned |-> {}]

\* PeerList::new, lines 28-34
InitPeerList ==
    /\ pc = "peer_list"
    /\ result = "none"
    /\ \E max_simultaneous_peers \in 0..MaxSimultaneousPeers, now \in Timestamps :
         block = [peer_list |-> [n \in NodeIds |-> "Absent"], latch |-> now,
                  max_simultaneous_peers |-> max_simultaneous_peers]
    /\ tx = NoCall
    /\ scratch_created = FALSE
    /\ state_touched = FALSE
    /\ scratch = EmptyState
    /\ state_root_hash = EmptyState
    /\ db_written = FALSE
    /\ flushed = FALSE
    /\ idx = 0
    /\ artifacts = <<>>
    /\ step_outcome = "unset"

\* What a peer list does not use.
NotOfPeerList ==
    <<pc, result, scratch_created, state_touched, scratch, state_root_hash,
      db_written, flushed, idx, artifacts, step_outcome>>

\* Timestamp::now(): the clock does not go back.
Now(latch) == {t \in Timestamps : t >= latch}

\* The peers of a quality among qualities.
PeersOf(peer_list, qualities) == {n \in NodeIds : peer_list[n] \in qualities}

\* lines 35-41
RegisterPeer ==
    /\ \E peer \in NodeIds, now \in Now(block.latch) :
         /\ block' = IF block.peer_list[peer] # "Absent" THEN block
                      ELSE [block EXCEPT !.peer_list[peer] = "Unknown", !.latch = now]
         /\ tx' = [call |-> "register_peer", peer |-> peer, returned |-> {}]
    /\ UNCHANGED NotOfPeerList

\* lines 43-54
DishonestPeers ==
    /\ tx' = [call |-> "dishonest_peers", peer |-> 0,
              returned |-> PeersOf(block.peer_list, {"Dishonest"})]
    /\ UNCHANGED block
    /\ UNCHANGED NotOfPeerList

\* lines 56-58
FlushPeers ==
    /\ block' = [block EXCEPT !.peer_list = [n \in NodeIds |-> "Absent"]]
    /\ tx' = [call |-> "flush", peer |-> 0, returned |-> {}]
    /\ UNCHANGED NotOfPeerList

\* lines 60-63
FlushDishonestPeers ==
    /\ \E now \in Now(block.latch) :
         block' = [block EXCEPT
                      !.peer_list = [n \in NodeIds |->
                                        IF block.peer_list[n] = "Dishonest"
                                        THEN "Absent" ELSE block.peer_list[n]],
                      !.latch = now]
    /\ tx' = [call |-> "flush_dishonest_peers", peer |-> 0, returned |-> {}]
    /\ UNCHANGED NotOfPeerList

\* lines 65-70
DisqualifyPeer ==
    /\ \E peer \in {0} \cup NodeIds, now \in Now(block.latch) :
         /\ block' = IF peer = 0 THEN block
                      ELSE [block EXCEPT !.peer_list[peer] = "Dishonest", !.latch = now]
         /\ tx' = [call |-> "disqualify_peer", peer |-> peer, returned |-> {}]
    /\ UNCHANGED NotOfPeerList

\* A promotion that takes a dishonest peer back.
PromotedForgiving(quality) ==
    CASE quality \in {"Absent"}                 -> "Unknown"
      [] quality \in {"Unknown", "Unresponsive", "Dishonest"} -> "Unreliable"
      [] OTHER                                  -> "Reliable"

\* lines 75-96: the quality promote_peer leaves a peer with.
Promoted(quality) ==
    CASE quality = "Absent"       -> "Unknown"
      [] quality = "Dishonest"    -> "Dishonest"
      [] quality = "Unknown"      -> "Unreliable"
      [] quality = "Unresponsive" -> "Unreliable"
      [] quality = "Unreliable"   -> "Reliable"
      [] quality = "Reliable"     -> "Reliable"

\* lines 72-98
PromotePeer ==
    /\ \E peer \in {0} \cup NodeIds :
         /\ block' = IF peer = 0 THEN block
                      ELSE [block EXCEPT !.peer_list[peer] = Promoted(@)]
         /\ tx' = [call |-> "promote_peer", peer |-> peer, returned |-> {}]
    /\ UNCHANGED NotOfPeerList

\* lines 103-121: the quality demote_peer leaves a peer with.
Demoted(quality) ==
    CASE quality = "Absent"       -> "Absent"
      [] quality = "Dishonest"    -> "Dishonest"
      [] quality = "Unknown"      -> "Unknown"
      [] quality = "Unresponsive" -> "Unknown"
      [] quality = "Unreliable"   -> "Unresponsive"
      [] quality = "Reliable"     -> "Unreliable"

\* lines 100-123
DemotePeer ==
    /\ \E peer \in {0} \cup NodeIds :
         /\ block' = IF peer = 0 THEN block
                      ELSE [block EXCEPT !.peer_list[peer] = Demoted(@)]
         /\ tx' = [call |-> "demote_peer", peer |-> peer, returned |-> {}]
    /\ UNCHANGED NotOfPeerList

\* lines 126-145; refresh_due: more than PEER_REFRESH_INTERVAL has passed
\* since the latch.
NeedPeers ==
    /\ \E refresh_due \in BOOLEAN :
         LET need ==
               \/ PeersOf(block.peer_list, PeerQualities) = {}
               \/ refresh_due
               \/ Cardinality(PeersOf(block.peer_list, {"Reliable", "Unknown"}))
                    < block.max_simultaneous_peers
         IN tx' = [call |-> "need_peers", peer |-> 0,
                   returned |-> IF need THEN {TRUE} ELSE {FALSE}]
    /\ UNCHANGED block
    /\ UNCHANGED NotOfPeerList

\* IteratorRandom::choose_multiple(rng, amount): amount of the items, picked
\* at random, or all of them if there are fewer.
ChooseMultiple(items, amount) ==
    {chosen \in SUBSET items :
        Cardinality(chosen) = (IF Cardinality(items) < amount
                               THEN Cardinality(items) ELSE amount)}

\* line 161: peers.len().saturating_sub(up_to)
Missing(len, up_to) == IF len >= up_to THEN len - up_to ELSE 0

\* lines 147-177
QualifiedPeers ==
    /\ \E peers \in ChooseMultiple(PeersOf(block.peer_list, {"Reliable"}),
                                   block.max_simultaneous_peers) :
         LET up_to == block.max_simultaneous_peers
             missing == Missing(Cardinality(peers), up_to)
         IN \E better_than_nothing \in
                  ChooseMultiple(PeersOf(block.peer_list, {"Unreliable", "Unknown"}),
                                 missing) :
              tx' = [call |-> "qualified_peers", peer |-> 0,
                     returned |-> IF missing > 0 THEN peers \cup better_than_nothing
                                  ELSE peers]
    /\ UNCHANGED block
    /\ UNCHANGED NotOfPeerList

NextPeerList ==
    \/ RegisterPeer
    \/ DishonestPeers
    \/ FlushPeers
    \/ FlushDishonestPeers
    \/ DisqualifyPeer
    \/ PromotePeer
    \/ DemotePeer
    \/ NeedPeers
    \/ QualifiedPeers

SpecPeerList == InitPeerList /\ [][NextPeerList]_vars

\* ------------------------------------------------------------------ properties
\* The run is past the two guards.
PastGuards == pc \notin {"check_height", "check_gas_price"}

\* No state provider has been asked for anything, nothing has been changed.
NothingTouched ==
    /\ ~scratch_created
    /\ ~state_touched
    /\ ~db_written
    /\ ~flushed
    /\ scratch = EmptyState

\* C1: a call whose block height differs from the pre-state's next block
\* height ends with WrongBlockHeight, and no state operation (scratch state
\* creation, block-time write, commit) has been performed.
C1_WrongHeightIsFatalBeforeAnyStateOperation ==
    (pc # "check_height" /\ ~block.height_matches)
        => (pc = "done" /\ result = "WrongBlockHeight" /\ NothingTouched)

C1_Witness ==
    pc = "done" /\ result = "WrongBlockHeight" /\ ~block.height_matches

\* C2 as stated: a call with an era report and no next era gas price always
\* ends with FailedToGetNewEraGasPrice, before any transaction is processed and
\* before any state mutation.
C2_MissingGasPriceAlwaysGasPriceError ==
    (PastGuards /\ block.gas_price_missing)
        => (pc = "done" /\ result = "FailedToGetNewEraGasPrice"
            /\ idx = 0 /\ artifacts = <<>> /\ NothingTouched)

\* C2: a call with a matching height, an era report and no next era gas price
\* ends with FailedToGetNewEraGasPrice before any transaction is processed and
\* before any state mutation; with a height that does not match, the height
\* guard comes first and the call ends with WrongBlockHeight.
C2_MissingGasPriceIsFatalAfterHeightGuard ==
    (PastGuards /\ block.gas_price_missing)
        => /\ pc = "done"
           /\ result = IF block.height_matches THEN "FailedToGetNewEraGasPrice"
                                               ELSE "WrongBlockHeight"
           /\ idx = 0
           /\ artifacts = <<>>
           /\ NothingTouched

C2_Witness ==
    /\ pc = "done"
    /\ result = "FailedToGetNewEraGasPrice"
    /\ block.gas_price_missing
    /\ block.height_matches

\* The transaction whose locals tx holds has reached settlement: refund and
\* fee handling are done.
Settled == pc = "finish" \/ (pc = "next_transaction" /\ tx.stage = "settled")

\* C4: for every transaction that reaches settlement, under every refund and
\* fee policy, the refund amount is at most the cost, and refund amount plus
\* fee amount is the cost.
C4_RefundPlusFeeIsCost ==
    Settled => /\ tx.refund_amount <= tx.cost
               /\ tx.refund_amount + tx.fee_amount = tx.cost

C4_Witness ==
    /\ pc = "finish"
    /\ tx.refund_amount > 0
    /\ tx.fee_amount > 0
    /\ block.refund_handling = "Refund"
    /\ block.fee_handling = "PayToProposer"

\* C5 as stated: when the call returns a fatal error, nothing has been written
\* to durable storage (no fatal error is returned after write_scratch_to_db).
C5_NoFatalErrorAfterWrite ==
    (pc = "done" /\ result # "Ok") => ~db_written

\* C6 as stated: no failure of one transaction aborts the block (the call never
\* ends with an error that a single transaction's content caused).
C6_NoTransactionFailureAbortsBlock ==
    pc = "done" => result \notin {"TransactionConversion", "PaymentError"}

\* The loop is back at its head after the transaction whose locals tx holds.
AtLoopHeadAfter(stage) == pc = "next_transaction" /\ tx.stage = stage

\* C7: when computing the gas limit or the cost fails, the artifact is marked
\* invalid and appended, the state root (and the working state) is as it was
\* before the transaction, and the loop goes on.
C7_InvalidTransactionLeavesStateRoot ==
    AtLoopHeadAfter("invalid")
        => /\ result = "none"
           /\ tx.builder.error = "invalid"
           /\ Len(artifacts) = idx
           /\ artifacts[idx] = [transaction_hash |-> tx.hash, failed |-> TRUE]
           /\ state_root_hash = tx.start_root
           /\ scratch = tx.start_root

C7_Witness ==
    /\ AtLoopHeadAfter("invalid")
    /\ idx = 2
    /\ tx.start_root.touched = {1}
    /\ Len(artifacts) = 2

\* C8 as stated: a transaction, of standard or custom payment, whose initiator
\* balance does not cover the penalty payment gets an insufficient-balance
\* error, and the working state after it is the working state before it.
C8_InsufficientBalanceLeavesState ==
    AtLoopHeadAfter("insufficient_balance")
        => /\ tx.builder.error = "insufficient_balance"
           /\ scratch = tx.start_root
           /\ state_root_hash = tx.start_root

\* The three conditions of the eligibility gate, as the transaction met them.
Eligible ==
    /\ ~IsPenalty(tx.balance_identifier)
    /\ tx.sufficient_balance
    /\ tx.is_supported

PaymentFailed == ~tx.is_standard_payment /\ tx.builder.error = "payer"

\* What the transaction costs its payer or initiator: after a failed custom
\* payment the penalty payment transferred from the initiator (fee handling
\* then draws on the payment purse the penalty went to), otherwise the amount
\* handed to fee handling.
Charged == IF PaymentFailed THEN tx.penalty ELSE tx.fee_amount

\* The transaction ended with a failure of its own: an error of the classes
\* invalid, insufficient balance, payer resolution or execution, or it was
\* settled without being dispatched.
TransactionLevelFailure ==
    \/ tx.builder.error \in {"invalid", "insufficient_balance", "payer", "execution"}
    \/ (tx.stage = "settled" /\ ~tx.dispatched)

C11_RootNotFoundAlwaysFatalError ==
    /\ tx.post_payment_balance_result = "RootNotFound"
         => (pc = "done" /\ result = "RootNotFound")
    /\ result # "panic_root_not_found"

\* C12 as stated: at the start of every transaction and at the end of the
\* block's transactions, no refund purse set up by an earlier transaction is
\* still in the working state.
C12_NoRefundPurseLeftAtLoopHead ==
    pc \in {"next_transaction", "checksums"} => scratch.refund_purse = 0

\* C13 as stated: once a failed custom payment has had the penalty payment
\* transferred from the initiator to the payment purse, that transfer is part
\* of the working state every later step of the transaction sees.
C13_PenaltyTransferInWorkingState ==
    (tx.balance_identifier = "PenalizedPayment" /\ tx.penalty > 0)
        => tx.hash \in scratch.penalty_paid

\* The steps of a transaction from the eligibility gate on that are not its
\* execution: the settlement.
SettlementSteps ==
    {"eligibility", "clear_holds", "handle_refund", "gas_hold", "handle_fee", "finish"}

\* The payer of a standard-payment transaction has just been resolved for a
\* direct invocation of a contract by hash.
ResolvedByHash ==
    pc = "eligibility" /\ tx.is_standard_payment /\ tx.is_contract_by_hash_invocation

\* C14 as stated: for a standard-payment transaction that invokes a contract
\* by hash, a flagged entry point makes the contract's entity purse the payer,
\* an unflagged one the initiator's main purse, a failed lookup the
\* initiator's penalized purse.
C14_PayerOfEveryByHashInvocation ==
    ResolvedByHash =>
        /\ tx.entry_point = "WillPay" => tx.balance_identifier = "Entity"
        /\ tx.entry_point = "WontPay" => tx.balance_identifier = "Account"
        /\ tx.entry_point \notin {"WillPay", "WontPay"}
             => tx.balance_identifier = "PenalizedAccount"

\* C14 amended: where the addressable entity is enabled, a flagged entry point
\* makes the contract's entity purse the payer, an unflagged one the
\* initiator's main purse, and a failed lookup records the error and makes the
\* initiator's penalized purse the payer; where it is not enabled the
\* initiator's main purse pays without a lookup. A transaction whose payer is
\* the penalized account purse is never executed and goes through the
\* settlement steps with that purse.
C14_PayerOfByHashInvocation ==
    /\ (ResolvedByHash /\ block.addressable_entity_enabled) =>
          /\ tx.entry_point = "WillPay" => tx.balance_identifier = "Entity"
          /\ tx.entry_point = "WontPay" => tx.balance_identifier = "Account"
          /\ tx.entry_point \notin {"WillPay", "WontPay"}
               => (tx.balance_identifier = "PenalizedAccount"
                   /\ tx.builder.error = "payer")
    /\ (ResolvedByHash /\ ~block.addressable_entity_enabled) =>
          (tx.balance_identifier = "Account" /\ tx.builder.error = "none")
    /\ tx.balance_identifier = "PenalizedAccount" =>
          /\ ~tx.dispatched /\ ~tx.allow_execution
          /\ pc \in SettlementSteps \/ (pc = "next_transaction" /\ tx.stage = "settled")

\* A failed lookup has penalized the initiator and the fee is being taken
\* from the penalized purse.
C14_Witness ==
    /\ pc = "handle_fee"
    /\ tx.balance_identifier = "PenalizedAccount"
    /\ tx.builder.error = "payer"
    /\ block.addressable_entity_enabled

\* The era-end step is over or was not due, and the call has not failed.
PastEraEndStep ==
    \/ pc \in {"prune", "write_scratch_to_db", "flush", "era_end", "proof"}
    \/ pc = "done" /\ result = "Ok"

\* C15: the forced undelegation and the auction step have run exactly when
\* the block carries an era report, while they run the step outcome is not
\* yet made, and once they are over, up to and with the successful return,
\* the step outcome is present exactly when the block carries an era report.
C15_StepRunsIffEraReport ==
    /\ pc \in {"step", "era_validators"} =>
          (block.era_report /\ scratch.undelegated /\ step_outcome = "unset")
    /\ pc = "era_validators" => scratch.step
    /\ PastEraEndStep =>
          /\ block.era_report <=> (scratch.undelegated /\ scratch.step)
          /\ ~block.era_report => (~scratch.undelegated /\ ~scratch.step)
          /\ block.era_report <=> step_outcome \in {"SuccessWithNextEra",
                                                    "SuccessWithoutNextEra"}
          /\ ~block.era_report <=> step_outcome = "None"

\* A switch block has been executed to the end and its step outcome returned.
C15_Witness ==
    /\ pc = "done" /\ result = "Ok"
    /\ block.era_report /\ scratch.step /\ step_outcome = "SuccessWithNextEra"

BlockAssembled == pc = "proof" \/ (pc = "done" /\ result = "Ok")

\* C17: on a switch block whose validator snapshot, read after the step, has
\* no entry for the successor era, the next step ends the call with
\* FailedToCreateEraEnd, so no block is ever assembled from such a snapshot;
\* an assembled block carries an era end exactly when an era report was
\* supplied.
C17_MissingSuccessorEraIsFatal ==
    /\ [][(pc = "era_end" /\ block.era_report /\ step_outcome = "SuccessWithoutNextEra")
            => (pc' = "done" /\ result' = "FailedToCreateEraEnd")]_vars
    /\ [](BlockAssembled =>
            /\ step_outcome # "SuccessWithoutNextEra"
            /\ block.era_end = "Some" <=> block.era_report
            /\ block.era_end = "None" <=> ~block.era_report)

\* A switch block has failed for want of the successor era's validators.
C17_Witness == pc = "done" /\ result = "FailedToCreateEraEnd"

\* The checksum registry of this block's artifacts has been written.
ChecksumsWritten ==
    \/ pc \in {"distribute_fees", "block_rewards", "forced_undelegate", "step",
               "era_validators", "prune", "write_scratch_to_db", "flush", "era_end",
               "proof"}
    \/ pc = "done" /\ result = "Ok"

\* The list with the results at i and j exchanged.
Swapped(execution_results, i, j) ==
    [execution_results EXCEPT ![i] = execution_results[j], ![j] = execution_results[i]]

\* C19: the checksum in the registry is the one computed again from the
\* block's ordered list of execution results, and it is not the checksum of
\* any list that has one result replaced by a different one or two different
\* results exchanged.
C19_ChecksumOfOrderedResults ==
    ChecksumsWritten =>
        LET execution_results == ExecutionResultsOf(artifacts) IN
        /\ scratch.checksum_registry
              = {ComputeExecutionResultsChecksum(execution_results)}
        /\ \A i \in DOMAIN execution_results, other \in BOOLEAN :
              other # execution_results[i] =>
                 ComputeExecutionResultsChecksum([execution_results EXCEPT ![i] = other])
                     \notin scratch.checksum_registry
        /\ \A i, j \in DOMAIN execution_results :
              execution_results[i] # execution_results[j] =>
                 ComputeExecutionResultsChecksum(Swapped(execution_results, i, j))
                     \notin scratch.checksum_registry

\* The checksum of a block with a failed and a successful transaction, in
\* this order, is in the registry.
C19_Witness ==
    /\ ChecksumsWritten
    /\ ExecutionResultsOf(artifacts) = <<TRUE, FALSE>>
    /\ scratch.checksum_registry = {Hash(<<2, 1, 0>>)}

\* C20 as stated: a transaction that is not a deploy is answered
\* ReceivedV1Transaction.
C20_NonDeployAlwaysReceivedV1 ==
    (pc = "done" /\ tx.kind = "V1") => result = "ReceivedV1Transaction"

\* C20 amended: no step of a speculative execution changes anything of the
\* state provider; at most one execution is started and at most one answer
\* returned; a transaction that is not a deploy is never executed, and is
\* answered ReceivedV1Transaction when it converts and has a gas limit,
\* InvalidTransaction or InvalidGasLimit when it does not.
C20_SpeculativeExecutionNeverCommits ==
    /\ [][UNCHANGED ProviderState]_vars
    /\ [](idx <= 1 /\ Len(artifacts) <= 1)
    /\ [](tx.kind = "V1" => (idx = 0 /\ artifacts = <<>>))
    /\ []((pc = "done" /\ tx.kind = "V1") =>
            /\ result \in {"ReceivedV1Transaction", "InvalidTransaction",
                           "InvalidGasLimit"}
            /\ result = "ReceivedV1Transaction" <=> tx.gas_limit > 0)

\* A session deploy has been run against a state provider with a block
\* written and flushed, and has answered with effects.
C20_Witness ==
    /\ pc = "done" /\ result = "WasmV1" /\ idx = 1
    /\ artifacts[1].effects = "data" /\ ~tx.is_native
    /\ db_written /\ flushed /\ state_root_hash.block_time

\* The run is between two transactions or past the last one, and has not
\* failed.
BetweenTransactions ==
    \/ pc = "next_transaction"
    \/ ChecksumsWritten
    \/ pc = "checksums"

\* The run is inside the loop body, at work on transaction idx.
InLoopBody ==
    pc \in {"gas_limit", "gas_cost", "refund_purse", "initial_balance", "standard_payer",
            "custom_payment", "eligibility", "processing_hold", "dispatch", "clear_holds",
            "handle_refund", "gas_hold", "handle_fee", "finish"}

\* C21: the artifacts are one per transaction taken from the block so far, in
\* the order the transactions were taken, whatever became of each; inside the
\* loop body the artifact of the transaction at work is the only one still
\* to come. On success the list returned is that of all the transactions.
C21_OneArtifactPerTransactionInOrder ==
    /\ \A i \in DOMAIN artifacts : artifacts[i].transaction_hash = i
    /\ BetweenTransactions => Len(artifacts) = idx
    /\ InLoopBody => (Len(artifacts) = idx - 1 /\ tx.hash = idx)
    /\ (pc = "done" /\ result # "Ok") => artifacts = <<>>

\* The second transaction of a block was invalid, after a first one with
\* insufficient balance or another failure, and both have their artifacts.
C21_Witness ==
    /\ pc = "next_transaction" /\ tx.stage = "invalid" /\ idx = 2
    /\ Len(artifacts) = 2 /\ artifacts[1].failed /\ artifacts[2].failed

\* What can be reached from a set of block hashes in one move: the parent
\* of a header of the leap, and the blocks named by the signatures of the
\* next era of a switch block of the leap.
ReachedInOneMove(leap, R) ==
    LET known == R \cap LeapHeaders(leap) IN
    R \cup {ParentHash(h) : h \in known}
      \cup {leap.signed_block_headers[i].block_signatures.block_hash :
              i \in {j \in DOMAIN leap.signed_block_headers :
                       \E h \in known :
                          /\ HeaderIsSwitchBlock(leap, h)
                          /\ leap.signed_block_headers[j].block_signatures.era_id
                                = NextBlockEraId(leap, h)}}

RECURSIVE ReachedFrom(_, _)
ReachedFrom(leap, R) ==
    LET more == ReachedInOneMove(leap, R) IN
    IF more = R THEN R ELSE ReachedFrom(leap, more)

\* The block hashes reached from the trusted block header.
Reached(leap) == ReachedFrom(leap, {leap.trusted_block_header})

\* The headers of the leap that are not reached, and the eras of its
\* signatures that are the next era of no reached switch block of the leap.
OrphanedHeaders(leap) == LeapHeaders(leap) \ Reached(leap)

OrphanedSignatureEras(leap) ==
    {leap.signed_block_headers[i].block_signatures.era_id
        : i \in DOMAIN leap.signed_block_headers}
      \ {NextBlockEraId(leap, h) :
           h \in {b \in Reached(leap) \cap LeapHeaders(leap) : HeaderIsSwitchBlock(leap, b)}}

\* The errors of the checks made before the walk.
StructuralErrors ==
    {"MissingTrustedAncestors", "TooManySwitchBlocks", "TrustedAncestorsNotSorted",
     "MissingAncestorSwitchBlock", "UnexpectedAncestorSwitchBlock",
     "UnexpectedSignedBlockHeaders"}

\* C22: when no check before the walk has failed and the walk has met no
\* insufficiently signed signatures, what the walk leaves in its maps are
\* the orphaned headers and the orphaned signatures, and validate returns
\* IncompleteProof exactly when there is an orphaned header or an era with
\* orphaned signatures.
C22_OrphansMakeIncompleteProof ==
    /\ (pc = "walk" /\ tx.headers_with_sufficient_finality = <<>>) =>
          /\ tx.headers = OrphanedHeaders(block)
          /\ {e \in LeapEras : tx.signatures[e] # <<>>} = OrphanedSignatureEras(block)
    /\ (pc = "done" /\ result \notin StructuralErrors
                    /\ result # "HeadersNotSufficientlySigned") =>
          (result = "IncompleteProof"
             <=> (OrphanedHeaders(block) # {} \/ OrphanedSignatureEras(block) # {}))

\* A leap whose headers are all reached, with signatures of an era that no
\* reached switch block leads to, has been found incomplete.
C22_Witness ==
    /\ pc = "done" /\ result = "IncompleteProof"
    /\ OrphanedHeaders(block) = {}
    /\ OrphanedSignatureEras(block) # {}
    /\ Len(block.signed_block_headers) = 2

\* C23 as stated: the working state holds the effects of every successful
\* sub-operation before the next one is issued: the root the loop holds is
\* that of the working state, and when the next transaction is about to
\* start, the penalty transfer made for the transaction just settled is in
\* the working state.
C23_NextTransactionSeesAllEffects ==
    /\ (InLoopBody \/ pc = "next_transaction") => state_root_hash = scratch
    /\ (pc = "next_transaction" /\ tx.stage = "settled" /\ tx.penalty > 0)
          => tx.hash \in scratch.penalty_paid

\* C24 (amended): every transaction that reaches the eligibility gate has
\* the All-kind clear of the payer's holds issued and its effects committed
\* after the lane, or the skip, and before refund and fee handling; once the
\* transaction is settled no processing hold remains if the clear succeeded.
PastClearHolds ==
    \/ pc \in {"handle_refund", "gas_hold", "handle_fee", "finish"}
    \/ (pc = "next_transaction" /\ tx.stage = "settled")

BeforeClearHolds == pc \in {"eligibility", "processing_hold", "dispatch", "clear_holds"}

C24_HoldsClearedBeforeSettlement ==
    /\ PastClearHolds => tx.clear_hold_result \in {"Success", "Failure"}
    /\ BeforeClearHolds =>
          (tx.clear_hold_result = "none" /\ tx.refund_amount = 0 /\ tx.fee_amount = 0)
    /\ (PastClearHolds /\ tx.clear_hold_result = "Success") => ~scratch.processing_hold
    /\ (PastClearHolds /\ scratch.processing_hold) => tx.clear_hold_result = "Failure"

\* A transaction whose hold was placed, whose lane failed and whose holds
\* were cleared is settled.
C24_Witness ==
    /\ pc = "next_transaction" /\ tx.stage = "settled"
    /\ tx.hold_result = "Success" /\ tx.dispatched /\ tx.builder.error = "execution"
    /\ tx.clear_hold_result = "Success" /\ ~scratch.processing_hold

\* C24 as stated: no processing hold remains once the transaction is settled.
C24_NoProcessingHoldOnceSettled ==
    (pc = "next_transaction" /\ tx.stage = "settled") => ~scratch.processing_hold

\* C25: a processing hold for exactly the cost is requested on the payer's
\* purse, and its effects committed, before the lane if and only if the
\* transaction is eligible for execution and its payment is standard; there
\* is none for a custom payment or for a transaction that is not eligible.
HoldDecided == pc \in {"dispatch", "clear_holds"}

AfterLane ==
    \/ pc \in {"clear_holds", "handle_refund", "gas_hold", "handle_fee", "finish"}
    \/ (pc = "next_transaction" /\ tx.stage = "settled")

NativeLaneRan ==
    tx.lane = "mint" \/ (tx.lane = "auction" /\ tx.auction_method = "Ok")

AuctionMethodError == tx.lane = "auction" /\ tx.auction_method = "Err"

AuctionMethodErrorRecorded ==
    (AfterLane /\ AuctionMethodError) =>
        /\ tx.allow_execution
        /\ tx.builder.error # "none"
        /\ tx.lane_result = "none"
        /\ tx.builder.consumed = tx.payment_consumed
        /\ tx.is_standard_payment => tx.builder.consumed = 0
        /\ PastClearHolds => tx.clear_hold_result \in {"Success", "Failure"}

AuctionMethodErrorStep ==
    (pc = "dispatch" /\ tx'.auction_method = "Err") =>
        /\ pc' = "clear_holds"
        /\ result' = result
        /\ scratch' = scratch
        /\ state_root_hash' = state_root_hash

C27_AuctionMethodErrorIsRecordedOnly ==
    []AuctionMethodErrorRecorded /\ [][AuctionMethodErrorStep]_vars

\* A native-auction transaction whose arguments did not parse is settled.
C27_Witness ==
    /\ pc = "next_transaction" /\ tx.stage = "settled" /\ AuctionMethodError
    /\ tx.builder.error = "execution" /\ tx.builder.consumed = 0
    /\ tx.clear_hold_result = "Success" /\ result = "none"

\* C27 as stated: the consumed gas stays zero.
C27_ConsumedStaysZero ==
    (AfterLane /\ AuctionMethodError) => tx.builder.consumed = 0

\* C28: for every settled transaction the refund is handled and committed
\* before the fee, and one fee request is made for the cost less the
\* refunded amount: under NoFee a gas hold on the payer's purse and a credit
\* of the proposer, under Burn a burn from the payer's purse, under
\* PayToProposer a payment from it to the proposer's public-key purse, under
\* Accumulate a payment from it to the accumulation purse.
FeeHandled == pc = "finish" \/ (pc = "next_transaction" /\ tx.stage = "settled")

PayerPurses == {"Account", "Entity", "PenalizedAccount", "Payment", "PenalizedPayment"}

GasHoldPlaced == pc = "handle_fee" \/ FeeHandled

C29_NoRefundCustomHoldForCustomPayment ==
    (GasHoldPlaced /\ block.refund_handling = "NoRefund") =>
        /\ tx.refund_amount = 0
        /\ tx.refund_mode = "CustomHold" <=>
              (block.fee_handling = "NoFee" /\ ~tx.is_standard_payment)
        /\ tx.refund_mode = "CustomHold" =>
              /\ tx.balance_identifier = "Refund"
              /\ tx.gas_hold_purse = "Refund"
              /\ tx.gas_hold_amount = tx.cost
        /\ tx.refund_mode # "CustomHold" =>
              /\ tx.refund_mode = "None"
              /\ tx.balance_identifier \in PayerPurses
              /\ block.fee_handling = "NoFee" =>
                    (tx.gas_hold_purse = tx.balance_identifier
                     /\ tx.gas_hold_amount = tx.cost)

\* A transaction of custom payment is settled under NoRefund and NoFee with
\* its gas hold on the refund purse.
C29_Witness ==
    /\ pc = "next_transaction" /\ tx.stage = "settled"
    /\ block.refund_handling = "NoRefund" /\ block.fee_handling = "NoFee"
    /\ ~tx.is_standard_payment /\ tx.refund_mode = "CustomHold"
    /\ tx.gas_hold_purse = "Refund" /\ tx.gas_hold_amount = tx.cost
    /\ tx.cost > 0

\* C29 as stated: under NoRefund and NoFee the gas hold is on the refund purse.
C29_GasHoldOnRefundPurseUnderNoFee ==
    (GasHoldPlaced /\ block.refund_handling = "NoRefund"
                   /\ block.fee_handling = "NoFee") =>
        (tx.refund_mode = "CustomHold" /\ tx.gas_hold_purse = "Refund")

\* C30: on a switch block the forced undelegation runs first, the auction
\* step runs on the state the forced undelegation left, and the validator
\* snapshot is read at the root the step left; a failed forced undelegation
\* or a failed step ends execute_finalized_block at once with its error (in
\* a build with debug assertions the failed step is raised by commit_step's
\* debug_assert), and no later step, read, prune or durable write is made.
EraEndOrder ==
    /\ pc = "forced_undelegate" => (~scratch.undelegated /\ ~scratch.step)
    /\ pc = "step" =>
          (scratch.undelegated /\ ~scratch.step /\ state_root_hash = scratch)
    /\ pc = "era_validators" =>
          (scratch.undelegated /\ scratch.step /\ state_root_hash = scratch
           /\ step_outcome = "unset")
    /\ scratch.step => scratch.undelegated
    /\ (pc = "done" /\ result = "ForcedUndelegate") =>
          (~scratch.undelegated /\ ~scratch.step /\ ~db_written /\ ~flushed)
    /\ (pc = "done" /\ result = "Step") =>
          (scratch.undelegated /\ ~scratch.step /\ ~db_written /\ ~flushed)

EraEndFailureStep ==
    /\ (pc = "forced_undelegate" /\ pc' = "done") =>
          /\ result' \in {"ForcedUndelegate", "RootNotFound"}
          /\ scratch' = scratch /\ db_written' = db_written
    /\ (pc = "step" /\ pc' = "done") =>
          /\ result' \in {"Step", "RootNotFound", "panic", "panic_root_not_found"}
          /\ scratch' = scratch /\ db_written' = db_written
    /\ (pc = "forced_undelegate" /\ pc' # "done") => pc' \in {"step", "prune"}
    /\ (pc = "step" /\ pc' # "done") => pc' = "era_validators"
    /\ (pc = "era_validators" /\ pc' # "done") => pc' = "prune"

C31_EraValidatorsReadObservesStep ==
    (pc = "prune" /\ step_outcome \in {"SuccessWithNextEra", "SuccessWithoutNextEra"}) =>
        (block.era_validators_observed.undelegated /\ block.era_validators_observed.step)

\* C32 as stated: the write of the checksum registry is the last mutation
\* of the working state: once the registry is written the working state
\* does not change any more.
C32_ChecksumWriteIsLastMutation ==
    [][scratch.checksum_registry # {} => scratch' = scratch]_vars

\* C33: pruning is considered once per block, after the transaction loop
\* and the era-end processing and before the durable write; at most one
\* prune request is made, and only when there are keys to prune.
PastPrune ==
    \/ pc \in {"write_scratch_to_db", "flush", "era_end", "proof"}
    \/ (pc = "done" /\ result = "Ok")

C33_PruneConsideredOncePerBlock ==
    /\ pc = "prune" =>
          /\ tx = NoTx /\ step_outcome # "unset"
          /\ ~db_written /\ ~flushed
          /\ block.prune_considered = 0 /\ block.prune_requests = 0
    /\ PastPrune =>
          /\ block.prune_considered = 1
          /\ block.prune_requests = (IF block.prune_eras THEN 1 ELSE 0)
          /\ block.prune_result # "none" <=> block.prune_eras
    /\ ~(PastPrune \/ pc \in {"prune", "done"}) =>
          (block.prune_considered = 0 /\ block.prune_requests = 0 /\ ~scratch.pruned)
    /\ scratch.pruned => block.prune_requests = 1 \/ pc = "done"

\* A block without keys to prune is assembled, and so is one that pruned.
C33_Witness ==
    /\ pc = "done" /\ result = "Ok" /\ block.prune_considered = 1
    /\ block.prune_eras /\ block.prune_requests = 1 /\ scratch.pruned
    /\ Len(artifacts) = MaxTxns

\* C34: a MissingKey answer of the prune leaves the state root as it was
\* and the block goes on to the durable write and its assembly; a Failure
\* ends execute_finalized_block with a fatal error before the durable write.
PruneStep ==
    pc = "prune" =>
        /\ pc' = "done" =>
              /\ result' \in {"TrackingCopy", "panic_root_not_found"}
              /\ ~db_written' /\ ~flushed' /\ scratch' = scratch
        /\ (pc' # "done" /\ block'.prune_result = "MissingKey") =>
              /\ pc' = "write_scratch_to_db"
              /\ state_root_hash' = state_root_hash /\ scratch' = scratch
              /\ result' = result
        /\ (pc' # "done" /\ block'.prune_result = "Success") =>
              (scratch'.pruned /\ state_root_hash' = scratch')

PruneFailureBeforeWrite ==
    /\ (pc = "done" /\ result = "TrackingCopy" /\ ~flushed) => ~db_written
    /\ PastPrune => block.prune_result \in {"none", "MissingKey", "Success"}
    /\ (PastPrune /\ block.prune_result = "MissingKey") => ~scratch.pruned

C34_MissingKeyGoesOnFailureIsFatal ==
    []PruneFailureBeforeWrite /\ [][PruneStep]_vars

\* A block whose prune answered MissingKey is assembled.
C34_Witness ==
    /\ pc = "done" /\ result = "Ok" /\ block.prune_result = "MissingKey"
    /\ ~scratch.pruned /\ db_written /\ flushed

\* C35: in a successful invocation the working state is written to the
\* durable store once, after the transaction loop, the reward distribution,
\* the era-end step and the pruning; one flush follows the write; there is
\* no durable write or flush before, and the state root of the block is the
\* root the write returned.
BeforeDurableWrite ==
    pc \notin {"flush", "era_end", "proof", "done"}

DurableWriteOnce ==
    /\ BeforeDurableWrite =>
          (~db_written /\ ~flushed /\ block.db_writes = 0 /\ block.flushes = 0)
    /\ pc = "write_scratch_to_db" =>
          (tx = NoTx /\ step_outcome # "unset" /\ block.prune_considered = 1)
    /\ pc = "flush" =>
          (db_written /\ ~flushed /\ block.db_writes = 1 /\ block.flushes = 0)
    /\ (pc \in {"era_end", "proof"} \/ (pc = "done" /\ result = "Ok")) =>
          /\ db_written /\ flushed /\ block.db_writes = 1 /\ block.flushes = 1
          /\ state_root_hash = scratch
    /\ flushed => db_written

DurableWriteStep ==
    /\ (pc = "write_scratch_to_db" /\ pc' = "flush") =>
          (state_root_hash' = scratch /\ scratch' = scratch)
    /\ (db_written /\ pc' # "done") =>
          (state_root_hash' = state_root_hash /\ scratch' = scratch)
    /\ (db_written /\ result' = "Ok") => state_root_hash' = state_root_hash

C35_OneDurableWriteThenOneFlush ==
    []DurableWriteOnce /\ [][DurableWriteStep]_vars

\* A block of transactions is assembled on the root of the durable write,
\* which holds the checksum registry.
C35_Witness ==
    /\ pc = "done" /\ result = "Ok" /\ block.db_writes = 1 /\ block.flushes = 1
    /\ state_root_hash = scratch /\ state_root_hash.checksum_registry # {}
    /\ ~scratch.fees /\ ~scratch.step /\ ~scratch.pruned
    /\ Len(artifacts) = MaxTxns

\* C36: with a rewards map the accumulated fees are distributed first and
\* the block rewards second, both after the transactions and before the
\* era-end step, the rewards at the root the fee distribution returned; a
\* failure of either ends the block; without a rewards map neither runs.
RewardsOrder ==
    /\ pc = "distribute_fees" =>
          /\ tx = NoTx /\ scratch.checksum_registry # {}
          /\ ~scratch.fees /\ ~scratch.rewards /\ ~scratch.undelegated /\ ~scratch.step
    /\ pc = "block_rewards" =>
          /\ block.rewards /\ scratch.fees /\ ~scratch.rewards
          /\ state_root_hash = scratch
          /\ ~scratch.undelegated /\ ~scratch.step
    /\ pc = "forced_undelegate" =>
          /\ scratch.fees <=> block.rewards
          /\ scratch.rewards <=> block.rewards
          /\ ~scratch.undelegated /\ ~scratch.step
    /\ scratch.rewards => scratch.fees
    /\ (scratch.undelegated \/ scratch.step) => (scratch.fees <=> scratch.rewards)
    /\ (pc = "done" /\ result = "DistributeFees") =>
          (~scratch.fees /\ ~scratch.rewards /\ ~db_written)
    /\ (pc = "done" /\ result = "DistributeBlockRewards") =>
          (scratch.fees /\ ~scratch.rewards /\ ~scratch.undelegated /\ ~db_written)

RewardsStep ==
    /\ (pc = "distribute_fees" /\ pc' = "done") =>
          (result' \in {"DistributeFees", "RootNotFound"} /\ scratch' = scratch)
    /\ (pc = "block_rewards" /\ pc' = "done") =>
          (result' \in {"DistributeBlockRewards", "RootNotFound"} /\ scratch' = scratch)
    /\ (pc = "distribute_fees" /\ pc' # "done") =>
          \/ pc' = "block_rewards" /\ scratch'.fees /\ state_root_hash' = scratch'
          \/ pc' = "forced_undelegate" /\ scratch' = scratch /\ ~block'.rewards
    /\ (pc = "block_rewards" /\ pc' # "done") =>
          (pc' = "forced_undelegate" /\ scratch'.rewards /\ state_root_hash' = scratch')

C36_FeesThenRewardsBeforeEraEnd ==
    []RewardsOrder /\ [][RewardsStep]_vars

\* The fees were distributed and the distribution of the rewards failed.
C36_Witness ==
    /\ pc = "done" /\ result = "DistributeBlockRewards"
    /\ scratch.fees /\ ~scratch.rewards /\ ~db_written

\* C37 as stated: a gas hold placed for a settled transaction stays in
\* force to the end of the block: no later step removes it.
C37_GasHoldsStayInForce ==
    [][scratch.gas_holds \subseteq scratch'.gas_holds]_vars

\* C38: a peer that is Dishonest stays Dishonest under register_peer,
\* promote_peer, demote_peer and disqualify_peer; only flush and
\* flush_dishonest_peers take it out of the list; dishonest_peers returns
\* exactly the peers whose quality is Dishonest.
DishonestIsTerminal ==
    /\ \A n \in NodeIds :
          (block.peer_list[n] = "Dishonest" /\ block'.peer_list[n] # "Dishonest") =>
              /\ tx'.call \in {"flush", "flush_dishonest_peers"}
              /\ block'.peer_list[n] = "Absent"
    /\ tx'.call \in {"flush", "flush_dishonest_peers"} =>
          PeersOf(block'.peer_list, {"Dishonest"}) = {}
    /\ tx'.call = "dishonest_peers" =>
          /\ block' = block
          /\ tx'.returned = {n \in NodeIds : block.peer_list[n] = "Dishonest"}

C38_DishonestIsTerminal == [][DishonestIsTerminal]_vars

\* A dishonest peer has been promoted and is still Dishonest.
C38_Witness ==
    /\ tx.call = "promote_peer" /\ tx.peer = 1
    /\ block.peer_list[1] = "Dishonest" /\ block.peer_list[2] = "Reliable"

\* C39 as stated: qualified_peers returns no more than max_simultaneous_peers
\* peers, none of them Dishonest or Unresponsive, and with fewer Reliable
\* peers than that it fills up with Unreliable or Unknown peers, as many as
\* there are.
QualifiedPeersFilled ==
    tx'.call = "qualified_peers" =>
        LET up_to == block.max_simultaneous_peers
            reliable == PeersOf(block.peer_list, {"Reliable"})
            semi_useful == PeersOf(block.peer_list, {"Unreliable", "Unknown"})
            available == Cardinality(reliable) + Cardinality(semi_useful)
        IN /\ Cardinality(tx'.returned) <= up_to
           /\ tx'.returned \subseteq (reliable \cup semi_useful)
           /\ Cardinality(reliable) < up_to =>
                 /\ reliable \subseteq tx'.returned
                 /\ Cardinality(tx'.returned) =
                       (IF available < up_to THEN available ELSE up_to)

C39_QualifiedPeersFilledUp == [][QualifiedPeersFilled]_vars
====
